---- MODULE Spec2Model ----
(***************************************************************************)
(* Record store of andst_staff_recommend (db_gsheets.py): a Google-Sheets   *)
(* worksheet used as a row table, keyed by (date, name, type).             *)
(*                                                                         *)
(* Text is modelled as a sequence of one-character strings, so that the    *)
(* conversions the code relies on (str.strip, str.lower, int(), strptime,  *)
(* strftime, gspread's numericise) are computed and not assumed.           *)
(* A worksheet is the sequence of its rows, row 1 first; a row is the      *)
(* sequence of its cells as get_all_values() shows them (text).            *)
(*                                                                         *)
(* Next to the record store: the target store (get_target, set_target),    *)
(* the statistics the two applications compute from the session's records *)
(* (staff_recommend_app.py, data_management.py), a backend that fails in   *)
(* the middle of an operation, and a second actor on the same spreadsheet. *)
(***************************************************************************)
EXTENDS Integers, Sequences, FiniteSets, TLC

VARIABLES
    workbook,   \* the spreadsheet: worksheet title -> rows
    prev,       \* the spreadsheet as it was before the latest call
    hist,       \* the calls made so far, oldest first
    session_data,   \* st.session_state.data: the records the session holds
    view,       \* what the statistics last computed from the session's records
    names,      \* st.session_state.names: the staff names the session offers
    inflight,   \* the calls in progress: actor -> where its call stands
    cache       \* what st.cache_data holds for load_all_records_cached

vars == <<workbook, prev, hist, session_data, view, names, inflight, cache>>

(* ------------------------------------------------------------------ *)
(* Bounds of the model                                                 *)
(* ------------------------------------------------------------------ *)

\* number of calls a run is followed for
MaxOps == 3

(* ------------------------------------------------------------------ *)
(* Python text primitives                                              *)
(* ------------------------------------------------------------------ *)

DigitChars == <<"0", "1", "2", "3", "4", "5", "6", "7", "8", "9">>

UpperChars == <<"A", "B", "C", "D", "E", "F", "G", "H", "I", "J", "K", "L", "M",
                "N", "O", "P", "Q", "R", "S", "T", "U", "V", "W", "X", "Y", "Z">>

LowerChars == <<"a", "b", "c", "d", "e", "f", "g", "h", "i", "j", "k", "l", "m",
                "n", "o", "p", "q", "r", "s", "t", "u", "v", "w", "x", "y", "z">>

IsSpace(c) == c = " "

DigitSet == {DigitChars[i] : i \in 1..10}

IsDigit(c) == c \in DigitSet

\* the value of each decimal digit
DigitOf == [c \in DigitSet |-> (CHOOSE i \in 1..10 : DigitChars[i] = c) - 1]

DigitVal(c) == DigitOf[c]

\* the characters texts are made of
Alphabet ==
    {UpperChars[i] : i \in 1..26} \cup {LowerChars[i] : i \in 1..26}
      \cup DigitSet \cup {" ", "-", "/", ".", "+"}

\* str.lower, character by character
LowerOf ==
    [c \in Alphabet |->
        IF \E i \in 1..26 : UpperChars[i] = c
        THEN LowerChars[CHOOSE i \in 1..26 : UpperChars[i] = c]
        ELSE c]

LowerChar(c) == LowerOf[c]

\* str.lower
Lower(s) == [i \in 1..Len(s) |-> LowerChar(s[i])]

RECURSIVE LStrip(_)
LStrip(s) ==
    IF s = <<>> THEN s
    ELSE IF IsSpace(Head(s)) THEN LStrip(Tail(s)) ELSE s

RECURSIVE RStrip(_)
RStrip(s) ==
    IF s = <<>> THEN s
    ELSE IF IsSpace(s[Len(s)]) THEN RStrip(SubSeq(s, 1, Len(s) - 1)) ELSE s

\* str.strip
Strip(s) == RStrip(LStrip(s))

AllDigits(s) == \A i \in 1..Len(s) : IsDigit(s[i])

RECURSIVE NatOf(_)
\* value of a string of decimal digits
NatOf(s) ==
    IF s = <<>> THEN 0
    ELSE NatOf(SubSeq(s, 1, Len(s) - 1)) * 10 + DigitVal(s[Len(s)])

\* int(s) for a str s: surrounding whitespace and one sign are accepted;
\* ok = FALSE stands for ValueError
PyInt(s) ==
    LET t == Strip(s)
        signed == t # <<>> /\ Head(t) \in {"-", "+"}
        body == IF signed THEN Tail(t) ELSE t
    IN  IF body # <<>> /\ AllDigits(body)
        THEN [ok |-> TRUE,
              v |-> IF signed /\ Head(t) = "-" THEN 0 - NatOf(body) ELSE NatOf(body)]
        ELSE [ok |-> FALSE, v |-> 0]

\* float(s) for a str s of the shape [sign] digits "." digits; v is the
\* value truncated toward zero (all the code ever takes of it, by int()),
\* zero tells whether the float is 0.0
PyFloat(s) ==
    LET t == Strip(s)
        signed == t # <<>> /\ Head(t) \in {"-", "+"}
        body == IF signed THEN Tail(t) ELSE t
        dots == {i \in 1..Len(body) : body[i] = "."}
        p == CHOOSE i \in dots : TRUE
        ip == SubSeq(body, 1, p - 1)
        fp == SubSeq(body, p + 1, Len(body))
    IN  IF Cardinality(dots) = 1 /\ AllDigits(ip) /\ AllDigits(fp) /\ Len(ip) + Len(fp) > 0
        THEN [ok |-> TRUE,
              v |-> IF signed /\ Head(t) = "-" THEN 0 - NatOf(ip) ELSE NatOf(ip),
              zero |-> NatOf(ip) = 0 /\ NatOf(fp) = 0]
        ELSE [ok |-> FALSE, v |-> 0, zero |-> FALSE]

RECURSIVE NatStr(_)
\* str(n) for n >= 0
NatStr(n) ==
    IF n < 10 THEN <<DigitChars[n + 1]>>
    ELSE NatStr(n \div 10) \o <<DigitChars[(n % 10) + 1]>>

\* str(n) for an int n: how a number written to a cell reads back as text
StrOfInt(n) == IF n < 0 THEN <<"-">> \o NatStr(0 - n) ELSE NatStr(n)

RECURSIVE ZeroPad(_, _)
\* "%0<w>d" % n
ZeroPad(n, w) ==
    LET s == NatStr(n) IN
    IF Len(s) >= w THEN s ELSE <<"0">> \o ZeroPad(n, w - 1)

(* ------------------------------------------------------------------ *)
(* datetime: strptime, strftime, isocalendar                           *)
(* ------------------------------------------------------------------ *)

IsLeap(y) == y % 4 = 0 /\ (y % 100 # 0 \/ y % 400 = 0)

DaysInMonth(y, m) ==
    IF m = 2 THEN (IF IsLeap(y) THEN 29 ELSE 28)
    ELSE IF m \in {4, 6, 9, 11} THEN 30 ELSE 31

RECURSIVE DaysBeforeMonth(_, _)
\* days of year y before the first of month m
DaysBeforeMonth(y, m) ==
    IF m = 1 THEN 0 ELSE DaysBeforeMonth(y, m - 1) + DaysInMonth(y, m - 1)

\* days before January 1st of year y
DaysBeforeYear(y) ==
    LET p == y - 1 IN p * 365 + p \div 4 - p \div 100 + p \div 400

\* date.toordinal(): 0001-01-01 is day 1
Ymd2Ord(y, m, d) == DaysBeforeYear(y) + DaysBeforeMonth(y, m) + d

\* ordinal of the Monday that starts ISO week 1 of year y
IsoWeek1Monday(y) ==
    LET firstday == Ymd2Ord(y, 1, 1)
        firstweekday == (firstday + 6) % 7
        week1monday == firstday - firstweekday
    IN  IF firstweekday > 3 THEN week1monday + 7 ELSE week1monday

\* date(y, m, d).isocalendar().week
IsoWeek(y, m, d) ==
    LET today == Ymd2Ord(y, m, d)
        week == (today - IsoWeek1Monday(y)) \div 7
    IN  IF today < IsoWeek1Monday(y)
        THEN (today - IsoWeek1Monday(y - 1)) \div 7 + 1
        ELSE IF week >= 52 /\ today >= IsoWeek1Monday(y + 1)
        THEN 1
        ELSE week + 1

NoDate == [ok |-> FALSE, y |-> 0, m |-> 0, d |-> 0]

\* datetime.strptime(s, "%Y<sep>%m<sep>%d"): %Y is four digits, %m and %d
\* one or two digits (1..12, 1..31), nothing may follow the day, and the
\* day must exist in the month; ok = FALSE stands for ValueError
Strptime(s, sep) ==
    LET seps == {i \in 1..Len(s) : s[i] = sep}
        p1 == CHOOSE i \in seps : \A j \in seps : i <= j
        rest == {i \in seps : i > p1}
        p2 == CHOOSE i \in rest : \A j \in rest : i <= j
        ys == SubSeq(s, 1, p1 - 1)
        ms == SubSeq(s, p1 + 1, p2 - 1)
        ds == SubSeq(s, p2 + 1, Len(s))
        y == NatOf(ys)
        m == NatOf(ms)
        d == NatOf(ds)
    IN  IF /\ Cardinality(seps) = 2
           /\ Len(ys) = 4 /\ AllDigits(ys)
           /\ Len(ms) \in {1, 2} /\ AllDigits(ms)
           /\ Len(ds) \in {1, 2} /\ AllDigits(ds)
           /\ y >= 1
           /\ m \in 1..12
           /\ d >= 1 /\ d <= DaysInMonth(y, m)
        THEN [ok |-> TRUE, y |-> y, m |-> m, d |-> d]
        ELSE NoDate

\* dt.strftime("%Y-%m-%d")
Strftime(dt) == ZeroPad(dt.y, 4) \o <<"-">> \o ZeroPad(dt.m, 2) \o <<"-">> \o ZeroPad(dt.d, 2)

(* ------------------------------------------------------------------ *)
(* gspread: worksheets, rows, cells                                    *)
(* ------------------------------------------------------------------ *)

H_date == <<"d", "a", "t", "e">>
H_week == <<"w", "e", "e", "k">>
H_name == <<"n", "a", "m", "e">>
H_type == <<"t", "y", "p", "e">>
H_count == <<"c", "o", "u", "n", "t">>

\* the record types the callers pass
T_new == <<"n", "e", "w">>
T_exist == <<"e", "x", "i", "s", "t">>
T_line == <<"l", "i", "n", "e">>
T_survey == <<"s", "u", "r", "v", "e", "y">>

RecordTypes == {T_new, T_exist, T_line, T_survey}

RECORDS_SHEET == "records"

RecordHeaders == <<H_date, H_week, H_name, H_type, H_count>>

EmptyText == <<>>

\* a Python value read from a cell: k is its type ("none", "int", "float",
\* "str"), n its integer value (a float's, truncated), s the cell's text
NoneVal == [k |-> "none", n |-> 0, s |-> EmptyText]
StrVal(s) == [k |-> "str", n |-> 0, s |-> s]
IntVal(n) == [k |-> "int", n |-> n, s |-> StrOfInt(n)]

\* gspread.utils.numericise: int(value), else float(value), else the text
Numericise(s) ==
    IF PyInt(s).ok THEN [k |-> "int", n |-> PyInt(s).v, s |-> s]
    ELSE IF PyFloat(s).ok THEN [k |-> "float", n |-> PyFloat(s).v, s |-> s]
    ELSE StrVal(s)

\* bool(v)
Truthy(v) ==
    CASE v.k = "none" -> FALSE
      [] v.k = "int" -> v.n # 0
      [] v.k = "float" -> ~PyFloat(v.s).zero
      [] OTHER -> v.s # EmptyText

\* str(v); a float's text is taken as the cell shows it
PyStr(v) ==
    CASE v.k = "int" -> StrOfInt(v.n)
      [] v.k = "float" -> Strip(v.s)
      [] OTHER -> v.s

\* PyIntOf taking int() of the cell's text, so that a decimal fails
PyIntOfText(v) ==
    CASE v.k = "int" -> [ok |-> TRUE, v |-> v.n]
      [] v.k = "none" -> [ok |-> FALSE, v |-> 0]
      [] OTHER -> PyInt(v.s)

\* int(v) under try/except: [ok, v]
PyIntOf(v) ==
    CASE v.k = "int" -> [ok |-> TRUE, v |-> v.n]
      [] v.k = "float" -> [ok |-> TRUE, v |-> v.n]
      [] v.k = "str" -> PyInt(v.s)
      [] OTHER -> [ok |-> FALSE, v |-> 0]

RECURSIVE TrimEmptyTail(_)
TrimEmptyTail(row) ==
    IF row = <<>> THEN row
    ELSE IF row[Len(row)] = EmptyText THEN TrimEmptyTail(SubSeq(row, 1, Len(row) - 1))
    ELSE row

\* ws.row_values(i)
RowValues(ws, i) == IF i <= Len(ws) THEN TrimEmptyTail(ws[i]) ELSE <<>>

\* ws.delete_rows(i)
DeleteRows(ws, i) ==
    IF i <= Len(ws) THEN SubSeq(ws, 1, i - 1) \o SubSeq(ws, i + 1, Len(ws)) ELSE ws

\* ws.insert_row(values, index=i)
InsertRow(ws, values, i) ==
    SubSeq(ws, 1, i - 1) \o <<values>> \o SubSeq(ws, i, Len(ws))

\* ws.append_row(values)
AppendRow(ws, values) == Append(ws, values)

\* ws.update_cell(r, c, text)
UpdateCell(ws, r, c, text) ==
    [ws EXCEPT ![r] = [j \in 1..(IF c > Len(@) THEN c ELSE Len(@)) |->
                          IF j = c THEN text ELSE IF j <= Len(@) THEN @[j] ELSE EmptyText]]

\* ws.cell(r, c).value: the cell's text, None for an empty cell
CellValue(ws, r, c) ==
    IF r <= Len(ws) /\ c <= Len(ws[r]) /\ ws[r][c] # EmptyText
    THEN StrVal(ws[r][c]) ELSE NoneVal

\* ws.get_all_values()
GetAllValues(ws) == ws

\* one row of ws.get_all_records(): r.get(key), the keys being the cells of
\* row 1 as they stand and the values numericised (later columns win)
RecGet(ws, r, key) ==
    LET cols == {i \in 1..Len(ws[1]) : ws[1][i] = key}
        c == CHOOSE i \in cols : \A j \in cols : j <= i
    IN  IF cols = {} THEN NoneVal
        ELSE IF c <= Len(ws[r]) THEN Numericise(ws[r][c]) ELSE StrVal(EmptyText)

\* the data rows ws.get_all_records() yields: rows 2.. of a non-empty sheet
DataRows(ws) == 2..Len(ws)

SetSheet(wb, title, ws) ==
    [t \in DOMAIN wb \cup {title} |-> IF t = title THEN ws ELSE wb[t]]

NormHeaders(row) == [i \in 1..Len(row) |-> Lower(Strip(row[i]))]

\* _ensure_worksheet: create the sheet with its header row, or reset row 1
\* when it is not the header row; returns the workbook
EnsureWorksheet(wb, title, headers) ==
    IF title \notin DOMAIN wb
    THEN SetSheet(wb, title, AppendRow(<<>>, headers))
    ELSE IF NormHeaders(RowValues(wb[title], 1)) # NormHeaders(headers)
         THEN SetSheet(wb, title, InsertRow(DeleteRows(wb[title], 1), headers, 1))
         ELSE wb

(* ------------------------------------------------------------------ *)
(* db_gsheets: load_all_records                                        *)
(* ------------------------------------------------------------------ *)

\* ParseDate with the "%Y/%m/%d" format left out
ParseDateDashOnly(dstr) == Strptime(dstr, "-")

\* the two formats load_all_records tries, in order
ParseDate(dstr) ==
    IF Strptime(dstr, "-").ok THEN Strptime(dstr, "-") ELSE Strptime(dstr, "/")

\* dstr = str(r.get("date") or "").strip()
RawDate(ws, r) ==
    LET v == RecGet(ws, r, H_date) IN
    Strip(PyStr(IF Truthy(v) THEN v ELSE StrVal(EmptyText)))

\* (r.get(key) or "").strip() raises AttributeError on a number
StripRaises(ws, r, key) ==
    LET v == RecGet(ws, r, key) IN Truthy(v) /\ v.k # "str"

\* (r.get(key) or "").strip()
StripField(ws, r, key) ==
    LET v == RecGet(ws, r, key) IN IF Truthy(v) THEN Strip(v.s) ELSE EmptyText

\* the dict load_all_records appends for row r
NormalizeRow(ws, r) ==
    LET dstr == RawDate(ws, r)
        dt == ParseDate(dstr)
        wk == RecGet(ws, r, H_week)
        cnt == PyIntOf(RecGet(ws, r, H_count))
    IN  [date |-> IF dt.ok THEN Strftime(dt) ELSE dstr,
         week |-> IF dt.ok /\ ~Truthy(wk) THEN IntVal(IsoWeek(dt.y, dt.m, dt.d)) ELSE wk,
         name |-> StripField(ws, r, H_name),
         type |-> StripField(ws, r, H_type),
         count |-> IF cnt.ok THEN cnt.v ELSE 0]

\* LoadSheet dropping the rows that lack a date, a name or a type
LoadSheetSkipping(ws) ==
    LET bad == {r \in DataRows(ws) : StripRaises(ws, r, H_name) \/ StripRaises(ws, r, H_type)}
        all == [i \in 1..(Len(ws) - 1) |-> NormalizeRow(ws, i + 1)]
        Complete(x) == x.date # EmptyText /\ x.name # EmptyText /\ x.type # EmptyText
    IN  [ok |-> bad = {},
         recs |-> IF bad = {} THEN SelectSeq(all, Complete) ELSE <<>>]

\* load_all_records on the worksheet: ok = FALSE when the loop raises
\* (AttributeError on a numeric name or type), else recs is the list returned
LoadSheet(ws) ==
    LET bad == {r \in DataRows(ws) : StripRaises(ws, r, H_name) \/ StripRaises(ws, r, H_type)}
    IN  [ok |-> bad = {},
         recs |-> IF bad = {} THEN [i \in 1..(Len(ws) - 1) |-> NormalizeRow(ws, i + 1)]
                  ELSE <<>>]

\* load_all_records(): what a call made in this state returns
LoadAllRecords(wb) ==
    LoadSheet(EnsureWorksheet(wb, RECORDS_SHEET, RecordHeaders)[RECORDS_SHEET])

(* ------------------------------------------------------------------ *)
(* db_gsheets: insert_or_update_record, delete_record                  *)
(* ------------------------------------------------------------------ *)

\* col_map.get(key): the 1-based column of the header, 0 for None
ColGet(headers, key) ==
    LET cols == {i \in 1..Len(headers) : headers[i] = key} IN
    IF cols = {} THEN 0 ELSE CHOOSE i \in cols : \A j \in cols : j <= i

\* col_map.get(key, default)
ColGetOr(headers, key, default) ==
    IF ColGet(headers, key) = 0 THEN default ELSE ColGet(headers, key)

\* the stripped cell of a row under the header key, "" when there is none
KeyCell(headers, row, key) ==
    IF ColGet(headers, key) # 0 /\ ColGet(headers, key) <= Len(row)
    THEN Strip(row[ColGet(headers, key)]) ELSE EmptyText

\* RowMatches without the comparison of the type
RowMatchesNoType(headers, row, date_str, name, tp) ==
    /\ KeyCell(headers, row, H_date) = date_str
    /\ KeyCell(headers, row, H_name) = name

\* the row-matching test both scans use
RowMatches(headers, row, date_str, name, tp) ==
    /\ KeyCell(headers, row, H_date) = date_str
    /\ KeyCell(headers, row, H_name) = name
    /\ KeyCell(headers, row, H_type) = tp

\* the first matching row number (2..), 0 when the scan finds none
FindRow(data, date_str, name, tp) ==
    LET headers == IF data # <<>> THEN NormHeaders(data[1]) ELSE RecordHeaders
        hits == {i \in 2..Len(data) : RowMatches(headers, data[i], date_str, name, tp)}
    IN  IF hits = {} THEN 0 ELSE CHOOSE i \in hits : \A j \in hits : i <= j

\* week = dt.isocalendar().week, "" when date_str is not %Y-%m-%d
WeekCell(date_str) ==
    LET dt == Strptime(date_str, "-") IN
    IF dt.ok THEN StrOfInt(IsoWeek(dt.y, dt.m, dt.d)) ELSE EmptyText

\* old_count = int(old_count_cell or 0), 0 on any exception
OldCount(ws, r, c) ==
    LET v == CellValue(ws, r, c) IN
    IF ~Truthy(v) THEN 0 ELSE IF PyInt(v.s).ok THEN PyInt(v.s).v ELSE 0

\* NewCount taking the submitted count away from the stored one
NewCountMinus(old_count, add_count) == old_count - add_count

\* new_count = int(old_count) + int(add_count)
NewCount(old_count, add_count) == old_count + add_count

\* the five update_cell calls of the update branch
UpdateRow(ws, r, headers, date_str, name, tp, add_count) ==
    LET w1 == UpdateCell(ws, r, ColGetOr(headers, H_count, 5),
                         StrOfInt(NewCount(OldCount(ws, r, ColGetOr(headers, H_count, 5)), add_count)))
        w2 == UpdateCell(w1, r, ColGetOr(headers, H_date, 1), date_str)
        w3 == UpdateCell(w2, r, ColGetOr(headers, H_week, 2), WeekCell(date_str))
        w4 == UpdateCell(w3, r, ColGetOr(headers, H_name, 3), name)
    IN  UpdateCell(w4, r, ColGetOr(headers, H_type, 4), tp)

\* InsertOrUpdateRecord checking its arguments first and raising on a date
\* that does not parse, an empty name or an unknown type
InsertOrUpdateRecordChecked(ws, date_str, name, tp, add_count) ==
    LET data == GetAllValues(ws)
        headers == IF data # <<>> THEN NormHeaders(data[1]) ELSE RecordHeaders
        target_row_idx == FindRow(data, date_str, name, tp)
    IN  IF ~ParseDate(Strip(date_str)).ok \/ Strip(name) = EmptyText \/ tp \notin RecordTypes
        THEN [ws |-> ws, raised |-> TRUE]
        ELSE [ws |-> IF target_row_idx # 0
                     THEN UpdateRow(ws, target_row_idx, headers, date_str, name, tp, add_count)
                     ELSE AppendRow(ws, <<date_str, WeekCell(date_str), name, tp, StrOfInt(add_count)>>),
              raised |-> FALSE]

\* insert_or_update_record on the worksheet _ensure_worksheet returned:
\* [ws, raised]; no statement of the function raises on any input
InsertOrUpdateRecord(ws, date_str, name, tp, add_count) ==
    LET data == GetAllValues(ws)
        headers == IF data # <<>> THEN NormHeaders(data[1]) ELSE RecordHeaders
        target_row_idx == FindRow(data, date_str, name, tp)
    IN  [ws |-> IF target_row_idx # 0
                THEN UpdateRow(ws, target_row_idx, headers, date_str, name, tp, add_count)
                ELSE AppendRow(ws, <<date_str, WeekCell(date_str), name, tp, StrOfInt(add_count)>>),
         raised |-> FALSE]

\* DeleteRecord reporting a removal whether or not the scan found a row
DeleteRecordAlways(ws, date_str, name, category) ==
    LET data == GetAllValues(ws)
        idx == FindRow(data, date_str, name, category)
    IN  [ws |-> IF idx = 0 THEN ws ELSE DeleteRows(ws, idx), ret |-> TRUE]

\* delete_record on the worksheet: [ws, ret]
DeleteRecord(ws, date_str, name, category) ==
    LET data == GetAllValues(ws)
        idx == FindRow(data, date_str, name, category)
    IN  IF data = <<>> \/ idx = 0
        THEN [ws |-> ws, ret |-> FALSE]
        ELSE [ws |-> DeleteRows(ws, idx), ret |-> TRUE]

(* ------------------------------------------------------------------ *)
(* db_gsheets: get_target, set_target                                  *)
(* ------------------------------------------------------------------ *)

TARGETS_SHEET == "targets"

H_month == <<"m", "o", "n", "t", "h">>
H_target == <<"t", "a", "r", "g", "e", "t">>

TargetHeaders == <<H_month, H_type, H_target>>

\* the categories the callers pass: 'app' | 'survey'
Cat_app == <<"a", "p", "p">>
Cat_survey == T_survey

Categories == {Cat_app, Cat_survey}

\* the targets worksheet as get_target and set_target see it, after
\* _ensure_worksheet
Targets(wb) == EnsureWorksheet(wb, TARGETS_SHEET, TargetHeaders)[TARGETS_SHEET]

\* m = str(r.get(key) or "").strip() of get_target
TargetField(ws, r, key) ==
    LET v == RecGet(ws, r, key) IN
    Strip(PyStr(IF Truthy(v) THEN v ELSE StrVal(EmptyText)))

\* int(r.get("target") or 0), 0 on any exception
TargetValue(ws, r) ==
    LET v == RecGet(ws, r, H_target) IN
    IF ~Truthy(v) THEN 0 ELSE IF PyIntOf(v).ok THEN PyIntOf(v).v ELSE 0

\* get_target on the worksheet: the target of the first row that matches,
\* 0 when none does
GetTarget(ws, month_ym, tp) ==
    LET hits == {r \in DataRows(ws) : /\ TargetField(ws, r, H_month) = month_ym
                                      /\ TargetField(ws, r, H_type) = tp}
    IN  IF hits = {} THEN 0
        ELSE TargetValue(ws, CHOOSE r \in hits : \A q \in hits : r <= q)

\* TargetRowMatches comparing the month alone
TargetRowMatchesMonth(headers, row, month_ym, tp) ==
    KeyCell(headers, row, H_month) = month_ym

\* the row-matching test of set_target's scan
TargetRowMatches(headers, row, month_ym, tp) ==
    /\ KeyCell(headers, row, H_month) = month_ym
    /\ KeyCell(headers, row, H_type) = tp

\* the first matching row number (2..), 0 when the scan finds none
FindTargetRow(data, month_ym, tp) ==
    LET headers == IF data # <<>> THEN NormHeaders(data[1]) ELSE TargetHeaders
        hits == {i \in 2..Len(data) : TargetRowMatches(headers, data[i], month_ym, tp)}
    IN  IF hits = {} THEN 0 ELSE CHOOSE i \in hits : \A j \in hits : i <= j

\* the worksheet after the first k of the three update_cell calls of
\* set_target's update branch: target, month, type
UpdateTargetCells(ws, r, headers, month_ym, tp, target_val, k) ==
    LET w1 == UpdateCell(ws, r, ColGetOr(headers, H_target, 3), StrOfInt(target_val))
        w2 == UpdateCell(w1, r, ColGetOr(headers, H_month, 1), month_ym)
        w3 == UpdateCell(w2, r, ColGetOr(headers, H_type, 2), tp)
    IN  CASE k = 0 -> ws [] k = 1 -> w1 [] k = 2 -> w2 [] OTHER -> w3

\* SetTarget leaving a target that is already set as it is
SetTargetOnce(ws, month_ym, tp, target_val) ==
    IF FindTargetRow(GetAllValues(ws), month_ym, tp) # 0 THEN ws
    ELSE AppendRow(ws, <<month_ym, tp, StrOfInt(target_val)>>)

\* set_target on the worksheet _ensure_worksheet returned
SetTarget(ws, month_ym, tp, target_val) ==
    LET data == GetAllValues(ws)
        headers == IF data # <<>> THEN NormHeaders(data[1]) ELSE TargetHeaders
        target_row_idx == FindTargetRow(data, month_ym, tp)
    IN  IF target_row_idx # 0
        THEN UpdateTargetCells(ws, target_row_idx, headers, month_ym, tp, target_val, 3)
        ELSE AppendRow(ws, <<month_ym, tp, StrOfInt(target_val)>>)

(* ------------------------------------------------------------------ *)
(* Inputs                                                              *)
(* ------------------------------------------------------------------ *)

D_dash == <<"2", "0", "2", "5", "-", "0", "8", "-", "1", "2">>
D_slash == <<"2", "0", "2", "5", "/", "0", "8", "/", "1", "2">>
D_newyear == <<"2", "0", "2", "4", "-", "1", "2", "-", "3", "0">>
D_noday == <<"2", "0", "2", "5", "-", "0", "2", "-", "3", "0">>

N_A == <<"A">>
N_spaceA == <<" ", "A">>
N_digit == <<"7">>

T_other == <<"v", "i", "p">>

Dates == {D_dash, D_slash, D_newyear, D_noday}
Names == {N_A, N_spaceA, N_digit, EmptyText}
Types == {T_new, T_other}
\* the counts the forms submit: number_input(min_value=0)
Counts == {0, 1, 2}

\* the (date, name, type) keys the operations are called with: around
\* ("2025-08-12", "A", "new"), every other date, every other name, every
\* other type
Keys == (Dates \X {N_A} \X {T_new}) \cup ({D_dash} \X Names \X {T_new})
          \cup ({D_dash} \X {N_A} \X Types)

\* the counts a key is submitted with
CountsFor(k) == IF k = <<D_dash, N_A, T_new>> THEN Counts ELSE {1}

\* the keys used where the spreadsheet is also edited by hand
SheetKeys ==
    {<<D_dash, N_A, T_new>>, <<D_slash, N_A, T_new>>, <<D_dash, N_digit, T_new>>,
     <<D_dash, EmptyText, T_new>>}

\* the months and the targets set_target is called with: strftime("%Y-%m")
\* of the day, number_input(min_value=0)
M_aug == <<"2", "0", "2", "5", "-", "0", "8">>
M_sep == <<"2", "0", "2", "5", "-", "0", "9">>

Months == {M_aug, M_sep}
TargetVals == {0, 5, 7}

\* the record keys used next to the targets
TargetSpecKeys == {<<D_dash, N_A, T_new>>}

\* what a person may leave in a count cell
C_blank == EmptyText
C_text == <<"x">>
C_decimal == <<"2", ".", "5">>

CountEdits == {C_blank, C_text, C_decimal}

(* ------------------------------------------------------------------ *)
(* State and operations                                                *)
(* ------------------------------------------------------------------ *)

\* a call: its operation, its arguments, and its result (ret: what
\* delete_record returned; for the others, that the call returned normally)
Call(op, d, n, t, c, ret) ==
    [op |-> op, date |-> d, name |-> n, tp |-> t, cnt |-> c, ret |-> ret]

NoCall == Call("none", EmptyText, EmptyText, EmptyText, 0, TRUE)

\* the latest call
last == IF hist = <<>> THEN NoCall ELSE hist[Len(hist)]

\* no statistics computed yet
NoView == [op |-> "none"]

\* no call in progress
NoCalls == [a \in {} |-> NoCall]

\* st.cache_data: no entry for load_all_records_cached, or the list an
\* earlier call returned
NoCache == [valid |-> FALSE, recs |-> <<>>]
Cached(recs) == [valid |-> TRUE, recs |-> recs]

Init ==
    /\ workbook = [t \in {} |-> <<>>]
    /\ prev = workbook
    /\ hist = <<>>
    /\ session_data = <<>>
    /\ view = NoView
    /\ names = {}
    /\ inflight = NoCalls
    /\ cache = NoCache

\* the records worksheet as every operation sees it, after _ensure_worksheet
Records(wb) == EnsureWorksheet(wb, RECORDS_SHEET, RecordHeaders)[RECORDS_SHEET]

Step(wb, call) ==
    /\ Len(hist) < MaxOps
    /\ workbook' = wb
    /\ prev' = workbook
    /\ hist' = Append(hist, call)
    /\ UNCHANGED <<session_data, view, names, inflight, cache>>

\* init_db()
InitDb ==
    Step(EnsureWorksheet(workbook, RECORDS_SHEET, RecordHeaders),
         Call("init", EmptyText, EmptyText, EmptyText, 0, TRUE))

\* load_all_records()
Load ==
    Step(EnsureWorksheet(workbook, RECORDS_SHEET, RecordHeaders),
         Call("load", EmptyText, EmptyText, EmptyText, 0, LoadAllRecords(workbook).ok))

\* insert_or_update_record(d, n, t, c)
Upsert(d, n, t, c) ==
    LET wb == EnsureWorksheet(workbook, RECORDS_SHEET, RecordHeaders)
        res == InsertOrUpdateRecord(wb[RECORDS_SHEET], d, n, t, c)
    IN  Step(SetSheet(wb, RECORDS_SHEET, res.ws), Call("upsert", d, n, t, c, ~res.raised))

\* delete_record(d, n, t)
Delete(d, n, t) ==
    LET wb == EnsureWorksheet(workbook, RECORDS_SHEET, RecordHeaders)
        res == DeleteRecord(wb[RECORDS_SHEET], d, n, t)
    IN  Step(SetSheet(wb, RECORDS_SHEET, res.ws), Call("delete", d, n, t, 0, res.ret))

\* a person edits one cell of a data row in the shared spreadsheet
EditCell(r, c, text) ==
    /\ RECORDS_SHEET \in DOMAIN workbook
    /\ r \in 2..Len(workbook[RECORDS_SHEET])
    /\ workbook[RECORDS_SHEET][r][c] # text
    /\ Step(SetSheet(workbook, RECORDS_SHEET, UpdateCell(workbook[RECORDS_SHEET], r, c, text)),
            Call("edit", EmptyText, EmptyText, EmptyText, 0, TRUE))

Next ==
    \/ InitDb
    \/ Load
    \/ \E k \in Keys : \E c \in CountsFor(k) : Upsert(k[1], k[2], k[3], c)
    \/ \E k \in Keys : Delete(k[1], k[2], k[3])

\* the program alone
Spec == Init /\ [][Next]_vars

NextSheet ==
    \/ InitDb
    \/ Load
    \/ \E k \in SheetKeys : \E c \in CountsFor(k) : Upsert(k[1], k[2], k[3], c)
    \/ \E k \in SheetKeys : Delete(k[1], k[2], k[3])
    \/ \E r \in 2..(MaxOps + 1), text \in CountEdits : EditCell(r, 5, text)
    \/ \E r \in 2..(MaxOps + 1), c \in {1, 3, 4} : EditCell(r, c, EmptyText)

\* the program, and people editing the spreadsheet it shares with them
SpecSheet == Init /\ [][NextSheet]_vars

\* init_target_table()
InitTargetTable ==
    Step(EnsureWorksheet(workbook, TARGETS_SHEET, TargetHeaders),
         Call("init_target", EmptyText, EmptyText, EmptyText, 0, TRUE))

\* set_target(m, t, v)
SetTargetCall(m, t, v) ==
    LET wb == EnsureWorksheet(workbook, TARGETS_SHEET, TargetHeaders)
    IN  Step(SetSheet(wb, TARGETS_SHEET, SetTarget(wb[TARGETS_SHEET], m, t, v)),
             Call("set_target", m, EmptyText, t, v, TRUE))

\* get_target(m, t); cnt is the value returned
GetTargetCall(m, t) ==
    LET wb == EnsureWorksheet(workbook, TARGETS_SHEET, TargetHeaders)
    IN  Step(wb, Call("get_target", m, EmptyText, t, GetTarget(wb[TARGETS_SHEET], m, t), TRUE))

NextTargets ==
    \/ InitDb
    \/ InitTargetTable
    \/ Load
    \/ \E k \in TargetSpecKeys : Upsert(k[1], k[2], k[3], 1)
    \/ \E k \in TargetSpecKeys : Delete(k[1], k[2], k[3])
    \/ \E m \in Months, t \in Categories, v \in TargetVals : SetTargetCall(m, t, v)
    \/ \E m \in Months, t \in Categories : GetTargetCall(m, t)

\* the record store and the target store side by side
SpecTargets == Init /\ [][NextTargets]_vars

(* ------------------------------------------------------------------ *)
(* The storage calls of one operation, and the backend failing         *)
(* ------------------------------------------------------------------ *)

\* the workbook after each write call of _ensure_worksheet, in order:
\* add_worksheet and append_row(headers), or delete_rows(1) and
\* insert_row(headers, 1), or none
EnsureWrites(wb, title, headers) ==
    IF title \notin DOMAIN wb
    THEN <<SetSheet(wb, title, <<>>), SetSheet(wb, title, AppendRow(<<>>, headers))>>
    ELSE IF NormHeaders(RowValues(wb[title], 1)) # NormHeaders(headers)
         THEN <<SetSheet(wb, title, DeleteRows(wb[title], 1)),
                SetSheet(wb, title, InsertRow(DeleteRows(wb[title], 1), headers, 1))>>
         ELSE <<>>

\* the worksheet after the first k of the five update_cell calls of
\* insert_or_update_record's update branch: count, date, week, name, type
UpdateRowCells(ws, r, headers, date_str, name, tp, add_count, k) ==
    LET w1 == UpdateCell(ws, r, ColGetOr(headers, H_count, 5),
                         StrOfInt(NewCount(OldCount(ws, r, ColGetOr(headers, H_count, 5)), add_count)))
        w2 == UpdateCell(w1, r, ColGetOr(headers, H_date, 1), date_str)
        w3 == UpdateCell(w2, r, ColGetOr(headers, H_week, 2), WeekCell(date_str))
        w4 == UpdateCell(w3, r, ColGetOr(headers, H_name, 3), name)
        w5 == UpdateCell(w4, r, ColGetOr(headers, H_type, 4), tp)
    IN  CASE k = 0 -> ws [] k = 1 -> w1 [] k = 2 -> w2 [] k = 3 -> w3 [] k = 4 -> w4
          [] OTHER -> w5

\* the workbook after each write call of insert_or_update_record, in order
UpsertWrites(wb, date_str, name, tp, add_count) ==
    LET wb1 == EnsureWorksheet(wb, RECORDS_SHEET, RecordHeaders)
        ws == wb1[RECORDS_SHEET]
        data == GetAllValues(ws)
        headers == IF data # <<>> THEN NormHeaders(data[1]) ELSE RecordHeaders
        target_row_idx == FindRow(data, date_str, name, tp)
    IN  EnsureWrites(wb, RECORDS_SHEET, RecordHeaders) \o
        (IF target_row_idx # 0
         THEN [k \in 1..5 |->
                 SetSheet(wb1, RECORDS_SHEET,
                          UpdateRowCells(ws, target_row_idx, headers, date_str, name, tp, add_count, k))]
         ELSE <<SetSheet(wb1, RECORDS_SHEET,
                         AppendRow(ws, <<date_str, WeekCell(date_str), name, tp, StrOfInt(add_count)>>))>>)

\* the workbook after each write call of set_target, in order
SetTargetWrites(wb, month_ym, tp, target_val) ==
    LET wb1 == EnsureWorksheet(wb, TARGETS_SHEET, TargetHeaders)
        ws == wb1[TARGETS_SHEET]
        data == GetAllValues(ws)
        headers == IF data # <<>> THEN NormHeaders(data[1]) ELSE TargetHeaders
        target_row_idx == FindTargetRow(data, month_ym, tp)
    IN  EnsureWrites(wb, TARGETS_SHEET, TargetHeaders) \o
        (IF target_row_idx # 0
         THEN [k \in 1..3 |->
                 SetSheet(wb1, TARGETS_SHEET,
                          UpdateTargetCells(ws, target_row_idx, headers, month_ym, tp, target_val, k))]
         ELSE <<SetSheet(wb1, TARGETS_SHEET,
                         AppendRow(ws, <<month_ym, tp, StrOfInt(target_val)>>))>>)

\* the workbook left by an operation whose storage call fails after j of
\* its write calls went through: gspread raises, nothing catches it in the
\* operation, and nothing undoes the writes made
AfterWrites(wb, writes, j) == IF j = 0 THEN wb ELSE writes[j]

\* the key and the pair used where the backend fails
FailKey == <<D_dash, N_A, T_new>>
FailPairs == {<<M_aug, Cat_app>>, <<M_aug, Cat_survey>>}
FailVals == {5, 7}

\* insert_or_update_record(d, n, t, c), the backend failing after j writes
UpsertFails(d, n, t, c, j) ==
    /\ Len(hist) < MaxOps
    /\ j < Len(UpsertWrites(workbook, d, n, t, c))
    /\ Step(AfterWrites(workbook, UpsertWrites(workbook, d, n, t, c), j),
            Call("upsert", d, n, t, c, FALSE))

\* set_target(m, t, v), the backend failing after j writes
SetTargetFails(m, t, v, j) ==
    /\ Len(hist) < MaxOps
    /\ j < Len(SetTargetWrites(workbook, m, t, v))
    /\ Step(AfterWrites(workbook, SetTargetWrites(workbook, m, t, v), j),
            Call("set_target", m, EmptyText, t, v, FALSE))

NextFail ==
    \/ InitDb
    \/ InitTargetTable
    \/ Upsert(FailKey[1], FailKey[2], FailKey[3], 1)
    \/ \E p \in FailPairs, v \in FailVals : SetTargetCall(p[1], p[2], v)
    \/ \E j \in 0..6 : UpsertFails(FailKey[1], FailKey[2], FailKey[3], 1, j)
    \/ \E p \in FailPairs, v \in FailVals, j \in 0..4 : SetTargetFails(p[1], p[2], v, j)

\* the stores over a backend that may fail at any storage call
SpecFail == Init /\ [][NextFail]_vars

(* ------------------------------------------------------------------ *)
(* Two actors on one spreadsheet                                       *)
(* ------------------------------------------------------------------ *)

\* the keys the two actors work on
ActorKeys == {<<D_dash, N_A, T_new>>, <<D_dash, N_A, T_survey>>}

RECURSIVE TableOf(_, _)
\* the workbook after insert_or_update_record(k, 1) for the keys K, from
\* wb, the key of the shortest type first
TableOf(K, wb) ==
    IF K = {} THEN wb
    ELSE LET k == CHOOSE x \in K : \A y \in K : Len(x[3]) <= Len(y[3])
             wb1 == EnsureWorksheet(wb, RECORDS_SHEET, RecordHeaders)
         IN  TableOf(K \ {k},
                     SetSheet(wb1, RECORDS_SHEET,
                              InsertOrUpdateRecord(wb1[RECORDS_SHEET], k[1], k[2], k[3], 1).ws))

\* a spreadsheet that already holds records, and a session that has not
\* loaded them yet
InitActors ==
    /\ workbook \in {TableOf(K, [t \in {} |-> <<>>]) : K \in SUBSET ActorKeys}
    /\ prev = workbook
    /\ hist = <<>>
    /\ session_data = <<>>
    /\ view = NoView
    /\ names = {}
    /\ inflight = NoCalls
    /\ cache = NoCache

\* init_session / render_refresh_button: the session takes load_all_records()
\* as its data
Refresh ==
    /\ Len(hist) < MaxOps
    /\ \E loaded \in {LoadAllRecords(workbook)} :
          /\ loaded.ok
          /\ session_data' = loaded.recs
          /\ cache' = Cached(loaded.recs)
    /\ workbook' = EnsureWorksheet(workbook, RECORDS_SHEET, RecordHeaders)
    /\ prev' = workbook
    /\ hist' = Append(hist, Call("load", EmptyText, EmptyText, EmptyText, 0, TRUE))
    /\ UNCHANGED <<view, names, inflight>>

\* insert_or_update_record(d, n, t, c) called by the second actor
OtherUpsert(d, n, t, c) ==
    LET wb == EnsureWorksheet(workbook, RECORDS_SHEET, RecordHeaders)
        res == InsertOrUpdateRecord(wb[RECORDS_SHEET], d, n, t, c)
    IN  Step(SetSheet(wb, RECORDS_SHEET, res.ws), Call("other_upsert", d, n, t, c, ~res.raised))

\* delete_record(d, n, t) called by the second actor
OtherDelete(d, n, t) ==
    LET wb == EnsureWorksheet(workbook, RECORDS_SHEET, RecordHeaders)
        res == DeleteRecord(wb[RECORDS_SHEET], d, n, t)
    IN  Step(SetSheet(wb, RECORDS_SHEET, res.ws), Call("other_delete", d, n, t, 0, res.ret))

NextActors ==
    \/ Refresh
    \/ \E k \in ActorKeys : Delete(k[1], k[2], k[3])
    \/ \E k \in ActorKeys, c \in {1, 2} : OtherUpsert(k[1], k[2], k[3], c)
    \/ \E k \in ActorKeys : OtherDelete(k[1], k[2], k[3])

\* a session that loads and deletes, and a second actor writing to the
\* same spreadsheet between its calls
SpecActors == InitActors /\ [][NextActors]_vars

(* ------------------------------------------------------------------ *)
(* Row 1 of a worksheet in other hands                                 *)
(* ------------------------------------------------------------------ *)

\* the worksheets _ensure_worksheet is called for
SheetTitles == {RECORDS_SHEET, TARGETS_SHEET}

\* what a person may type over the first header cell: a foreign title, the
\* title in another case with a blank in front
H_foreign == <<"m", "e", "m", "o">>
H_DATE == <<" ", "D", "A", "T", "E">>

\* a person deletes row 1 of a worksheet
DeleteHeaderRow(title) ==
    /\ title \in DOMAIN workbook
    /\ Len(workbook[title]) >= 1
    /\ Step(SetSheet(workbook, title, DeleteRows(workbook[title], 1)),
            Call("delete_row1", EmptyText, EmptyText, EmptyText, 0, TRUE))

\* a person types over the first cell of row 1
RetitleHeader(title, text) ==
    /\ title \in DOMAIN workbook
    /\ Len(workbook[title]) >= 1
    /\ workbook[title][1][1] # text
    /\ Step(SetSheet(workbook, title, UpdateCell(workbook[title], 1, 1, text)),
            Call("retitle", EmptyText, EmptyText, EmptyText, 0, TRUE))

NextHeader ==
    \/ InitDb
    \/ InitTargetTable
    \/ Load
    \/ \E k \in ActorKeys : Upsert(k[1], k[2], k[3], 1)
    \/ \E k \in ActorKeys : Delete(k[1], k[2], k[3])
    \/ \E t \in Categories, v \in {5, 7} : SetTargetCall(M_aug, t, v)
    \/ \E t \in Categories : GetTargetCall(M_aug, t)
    \/ \E title \in SheetTitles : DeleteHeaderRow(title)
    \/ \E title \in SheetTitles, text \in {H_foreign, H_DATE} : RetitleHeader(title, text)

\* the program, and people changing row 1 of the worksheets
SpecHeader == Init /\ [][NextHeader]_vars

(* ------------------------------------------------------------------ *)
(* Two insert_or_update_record calls, storage call by storage call     *)
(* ------------------------------------------------------------------ *)

\* the key both actors submit, and the counts they submit
RaceKey == <<D_dash, N_A, T_new>>
RaceCounts == {1, 2}
Actors == {1, 2}

\* where a call of insert_or_update_record stands: pc names the storage
\* call it makes next, c is add_count, idx is target_row_idx (0 for None),
\* old is old_count; alone tells that no other call was in progress when
\* this one read the rows
CallAt(pc, c, idx, old, alone) == [pc |-> pc, c |-> c, idx |-> idx, old |-> old, alone |-> alone]

\* a records worksheet that exists, with or without a row of the key, and
\* two calls about to start
InitRace ==
    /\ workbook \in {EnsureWorksheet(TableOf(K, [t \in {} |-> <<>>]), RECORDS_SHEET, RecordHeaders) :
                       K \in SUBSET {RaceKey}}
    /\ prev = workbook
    /\ hist = <<>>
    /\ session_data = <<>>
    /\ view = NoView
    /\ names = {}
    /\ inflight \in [Actors -> {CallAt("get_all_values", c, 0, 0, TRUE) : c \in RaceCounts}]
    /\ cache = NoCache

StorageCall(a, ws, at) ==
    /\ workbook' = SetSheet(workbook, RECORDS_SHEET, ws)
    /\ inflight' = [inflight EXCEPT ![a] = at]
    /\ UNCHANGED <<prev, hist, session_data, view, names, cache>>

\* data = ws.get_all_values() and the scan for the row
ReadRows(a) ==
    LET ws == workbook[RECORDS_SHEET]
        idx == FindRow(GetAllValues(ws), RaceKey[1], RaceKey[2], RaceKey[3])
        me == inflight[a]
    IN  /\ me.pc = "get_all_values"
        /\ StorageCall(a, ws,
              CallAt(IF idx # 0 THEN "cell" ELSE "append_row", me.c, idx, 0,
                     \A b \in Actors \ {a} : inflight[b].pc \in {"get_all_values", "done"}))

\* old_count_cell = ws.cell(target_row_idx, count column).value
ReadOldCount(a) ==
    LET ws == workbook[RECORDS_SHEET]
        me == inflight[a]
    IN  /\ me.pc = "cell"
        /\ StorageCall(a, ws,
              CallAt("update_count", me.c, me.idx,
                     OldCount(ws, me.idx, ColGetOr(NormHeaders(ws[1]), H_count, 5)), me.alone))

\* ws.update_cell(target_row_idx, count column, new_count)
WriteCount(a) ==
    LET ws == workbook[RECORDS_SHEET]
        me == inflight[a]
    IN  /\ me.pc = "update_count"
        /\ StorageCall(a,
              UpdateCell(ws, me.idx, ColGetOr(NormHeaders(ws[1]), H_count, 5),
                         StrOfInt(NewCount(me.old, me.c))),
              CallAt("update_date", me.c, me.idx, me.old, me.alone))

\* the four update_cell calls that follow: date, week, name, type
WriteField(a) ==
    LET ws == workbook[RECORDS_SHEET]
        headers == NormHeaders(ws[1])
        me == inflight[a]
    IN  \/ /\ me.pc = "update_date"
           /\ StorageCall(a, UpdateCell(ws, me.idx, ColGetOr(headers, H_date, 1), RaceKey[1]),
                          CallAt("update_week", me.c, me.idx, me.old, me.alone))
        \/ /\ me.pc = "update_week"
           /\ StorageCall(a, UpdateCell(ws, me.idx, ColGetOr(headers, H_week, 2), WeekCell(RaceKey[1])),
                          CallAt("update_name", me.c, me.idx, me.old, me.alone))
        \/ /\ me.pc = "update_name"
           /\ StorageCall(a, UpdateCell(ws, me.idx, ColGetOr(headers, H_name, 3), RaceKey[2]),
                          CallAt("update_type", me.c, me.idx, me.old, me.alone))
        \/ /\ me.pc = "update_type"
           /\ StorageCall(a, UpdateCell(ws, me.idx, ColGetOr(headers, H_type, 4), RaceKey[3]),
                          CallAt("done", me.c, me.idx, me.old, me.alone))

\* ws.append_row([date_str, week, name, tp, int(add_count)])
AppendNewRow(a) ==
    LET ws == workbook[RECORDS_SHEET]
        me == inflight[a]
    IN  /\ me.pc = "append_row"
        /\ StorageCall(a,
              AppendRow(ws, <<RaceKey[1], WeekCell(RaceKey[1]), RaceKey[2], RaceKey[3], StrOfInt(me.c)>>),
              CallAt("done", me.c, me.idx, me.old, me.alone))

NextRace ==
    \E a \in Actors :
        \/ ReadRows(a)
        \/ ReadOldCount(a)
        \/ WriteCount(a)
        \/ WriteField(a)
        \/ AppendNewRow(a)

\* two actors calling insert_or_update_record on one key at the same time
SpecRace == InitRace /\ [][NextRace]_vars

(* ------------------------------------------------------------------ *)
(* staff_recommend_app: the registration form                          *)
(* ------------------------------------------------------------------ *)

\* load_all_records_cached.clear() leaving the entry in place
CacheKept(c) == c

\* load_all_records_cached.clear()
CacheClear(c) == NoCache

\* load_all_records_cached() with the cache holding c: the cached list if
\* there is one, else load_all_records(), cached unless it raises
LoadAllRecordsCached(c, wb) ==
    IF c.valid THEN [ok |-> TRUE, recs |-> c.recs, cache |-> c]
    ELSE CHOOSE res \in {[ok |-> L.ok, recs |-> L.recs, cache |-> IF L.ok THEN Cached(L.recs) ELSE c] :
                            L \in {LoadAllRecords(wb)}} : TRUE

\* names_from_records(records), as the set the sorted list holds
names_from_records(records) ==
    {Strip(records[i].name) : i \in {j \in DOMAIN records : records[j].name # EmptyText}}

\* the four number inputs of the form, in the order the form saves them
FormTypes == <<T_new, T_exist, T_line, T_survey>>

RECURSIVE FormUpserts(_, _, _, _, _)
\* the workbook after the form's insert_or_update_record calls from the
\* i-th type on: one call for each count above zero
FormUpserts(wb, date_str, name, cnts, i) ==
    IF i > Len(FormTypes) THEN wb
    ELSE IF cnts[i] > 0
         THEN LET wb1 == EnsureWorksheet(wb, RECORDS_SHEET, RecordHeaders)
              IN  FormUpserts(SetSheet(wb1, RECORDS_SHEET,
                                       InsertOrUpdateRecord(wb1[RECORDS_SHEET], date_str, name,
                                                            FormTypes[i], cnts[i]).ws),
                              date_str, name, cnts, i + 1)
         ELSE FormUpserts(wb, date_str, name, cnts, i + 1)

\* sum([int(new_cnt), int(exist_cnt), int(line_cnt), int(survey_cnt)])
FormSum(cnts) == cnts[1] + cnts[2] + cnts[3] + cnts[4]

\* what the form can be given: the new-name text, the date picked, the counts
FormNames == {EmptyText, N_spaceA, N_digit}
FormDates == {ParseDate(D_dash), ParseDate(D_newyear)}
FormCounts == {<<0, 0, 0, 0>>, <<1, 0, 0, 0>>, <<0, 2, 0, 1>>}

\* a spreadsheet that may hold records, and a session after init_session
InitForm ==
    /\ workbook \in {EnsureWorksheet(TableOf(K, [t \in {} |-> <<>>]), RECORDS_SHEET, RecordHeaders) :
                       K \in SUBSET {RaceKey}}
    /\ prev = workbook
    /\ hist = <<>>
    /\ session_data = LoadAllRecords(workbook).recs
    /\ view = NoView
    /\ names = names_from_records(session_data)
    /\ inflight = NoCalls
    /\ cache = Cached(session_data)

\* the form submitted with no name: st.warning, nothing else
RegFormNoName(name_new) ==
    /\ Len(hist) < MaxOps
    /\ Strip(name_new) = EmptyText
    /\ names = {}
    /\ hist' = Append(hist, Call("reg_warning", EmptyText, EmptyText, EmptyText, 0, FALSE))
    /\ prev' = workbook
    /\ UNCHANGED <<workbook, session_data, view, names, inflight, cache>>

\* the form submitted: name_new is the text typed, name_select the name
\* picked from the session's names ("" when there are none), d the date
\* picked, cnts the four counts
RegForm(name_new, name_select, d, cnts) ==
    /\ Len(hist) < MaxOps
    /\ \E name \in {IF Strip(name_new) # EmptyText THEN Strip(name_new) ELSE name_select} \ {EmptyText} :
       \E wb \in {FormUpserts(workbook, Strftime(d), name, cnts, 1)} :
       \E loaded \in {LoadAllRecordsCached(CacheClear(cache), wb)} :
        /\ prev' = workbook
        /\ workbook' = wb
        /\ IF FormSum(cnts) = 0
           THEN /\ names' = names \cup {name}
                /\ hist' = Append(hist, Call("reg_form", Strftime(d), name, EmptyText, 0, TRUE))
                /\ UNCHANGED <<session_data, cache>>
           ELSE IF loaded.ok
           THEN /\ cache' = loaded.cache
                /\ session_data' = loaded.recs
                /\ names' = names_from_records(loaded.recs)
                /\ hist' = Append(hist, Call("reg_form", Strftime(d), name, EmptyText, FormSum(cnts), TRUE))
           ELSE /\ cache' = loaded.cache
                /\ hist' = Append(hist, Call("reg_form", Strftime(d), name, EmptyText, FormSum(cnts), FALSE))
                /\ UNCHANGED <<session_data, names>>
        /\ UNCHANGED <<view, inflight>>

\* the cached list is older than ttl
CacheExpires ==
    /\ Len(hist) < MaxOps
    /\ cache.valid
    /\ cache' = NoCache
    /\ prev' = workbook
    /\ hist' = Append(hist, Call("ttl", EmptyText, EmptyText, EmptyText, 0, TRUE))
    /\ UNCHANGED <<workbook, session_data, view, names, inflight>>

NextForm ==
    \/ \E n \in FormNames : RegFormNoName(n)
    \/ \E n \in FormNames, d \in FormDates, cnts \in FormCounts :
          \E sel \in (IF names = {} THEN {EmptyText} ELSE names) : RegForm(n, sel, d, cnts)
    \/ Refresh
    \/ CacheExpires
    \/ \E k \in ActorKeys : OtherUpsert(k[1], k[2], k[3], 1)

\* a session submitting the registration form, a second actor writing to
\* the same spreadsheet
SpecForm == InitForm /\ [][NextForm]_vars

(* ------------------------------------------------------------------ *)
(* Statistics: pandas over the session's records                       *)
(* ------------------------------------------------------------------ *)

\* number of records in the session's record list
MaxRecs == 3

\* pd.to_datetime(text, errors="coerce") on the dates load_all_records
\* emits: the day of a YYYY-MM-DD text, NaT (ok = FALSE) for any other
ToDatetime(s) == Strptime(s, "-")

\* dt.strftime("%Y-%m"); NaT gives no text
YearMonth(dt) == IF dt.ok THEN SubSeq(Strftime(dt), 1, 7) ELSE <<"N", "a", "T">>

\* ensure_dataframe(records): date to datetime, count to int
ensure_dataframe(records) ==
    [i \in 1..Len(records) |->
        [date |-> ToDatetime(records[i].date), name |-> records[i].name,
         type |-> records[i].type, count |-> records[i].count,
         week |-> records[i].week]]

\* month_filter keeping the rows without a date as well
month_filter_nat(df, ym) ==
    LET InMonth(x) == ~x.date.ok \/ YearMonth(x.date) = ym IN SelectSeq(df, InMonth)

\* month_filter(df, ym)
month_filter(df, ym) ==
    LET InMonth(x) == x.date.ok /\ YearMonth(x.date) = ym IN SelectSeq(df, InMonth)

\* df[df["type"].isin(["new", "exist", "line"])] or df[df["type"] == "survey"]
category_filter(df, category) ==
    LET Keep(x) == IF category = Cat_app THEN x.type \in {T_new, T_exist, T_line}
                   ELSE x.type = T_survey
    IN  SelectSeq(df, Keep)

\* df[df["type"] == tp]
type_filter(df, tp) == LET Keep(x) == x.type = tp IN SelectSeq(df, Keep)

RECURSIVE CountSum(_)
\* int(df["count"].sum())
CountSum(df) == IF df = <<>> THEN 0 ELSE Head(df).count + CountSum(Tail(df))

RECURSIVE CountSumAt(_, _)
\* the sum of count over the rows at the positions S
CountSumAt(df, S) ==
    IF S = {} THEN 0
    ELSE LET i == CHOOSE j \in S : TRUE IN df[i].count + CountSumAt(df, S \ {i})

\* df.groupby(key)["count"].sum(), keys[i] being the key of row i:
\* group key -> sum
GroupSum(df, keys) ==
    [k \in {keys[i] : i \in DOMAIN df} |-> CountSumAt(df, {i \in DOMAIN df : keys[i] = k})]

\* date.dt.isocalendar().week
IsoWeekOf(x) == IsoWeek(x.date.y, x.date.m, x.date.d)

\* n / d rounded to the nearest integer, a tie to the even one (d # 0)
RoundDiv(n, d) ==
    LET nn == IF d < 0 THEN 0 - n ELSE n
        dd == IF d < 0 THEN 0 - d ELSE d
        q == nn \div dd
        r == nn % dd
    IN  IF 2 * r > dd THEN q + 1
        ELSE IF 2 * r < dd THEN q
        ELSE IF q % 2 = 0 THEN q ELSE q + 1

\* render_rate_block: pct, in tenths of a percent
\* pct = 0 if target <= 0 else min(100.0, round(current_total * 100.0 / max(1, target), 1))
RatePct(current_total, target) ==
    IF target <= 0 THEN 0
    ELSE LET r == RoundDiv(current_total * 1000, IF target > 1 THEN target ELSE 1)
         IN  IF r > 1000 THEN 1000 ELSE r

\* registration tab: app_total / survey_total of the month
MonthlyTotal(records, ym, category) ==
    CountSum(category_filter(month_filter(ensure_dataframe(records), ym), category))

\* show_statistics, weekly table: iso_week -> sum for the selected month
WeeklyTotals(records, monthW, category) ==
    LET df == category_filter(month_filter(ensure_dataframe(records), monthW), category)
    IN  GroupSum(df, [i \in DOMAIN df |-> IsoWeekOf(df[i])])

RECURSIVE LStripW(_)
\* str.lstrip("w")
LStripW(s) == IF s # <<>> /\ Head(s) = "w" THEN LStripW(Tail(s)) ELSE s

\* _filter_by_period(df, mode, value, selected_year)
\* (value is a text; for the year mode it is not looked at)
FilterByPeriod(df, mode, value, selected_year) ==
    LET HasDate(x) == x.date.ok
        InYear(x) == x.date.y = selected_year
        dfx == SelectSeq(df, HasDate)
        dyear == SelectSeq(dfx, InYear)
        want == PyInt(LStripW(Lower(value)))
    IN  IF \A i \in DOMAIN df : ~df[i].date.ok THEN <<>>
        ELSE IF mode = "week"
        THEN IF want.ok THEN SelectSeq(dyear, LAMBDA x : IsoWeekOf(x) = want.v) ELSE <<>>
        ELSE IF mode = "month"
        THEN SelectSeq(dyear, LAMBDA x : YearMonth(x.date) = value)
        ELSE dyear

\* show_statistics, composition: (new_sum, exist_sum, line_sum)
CompositionTotals(records, mode, value, selected_year) ==
    LET df_comp == FilterByPeriod(category_filter(ensure_dataframe(records), Cat_app),
                                  mode, value, selected_year)
    IN  <<CountSum(type_filter(df_comp, T_new)), CountSum(type_filter(df_comp, T_exist)),
          CountSum(type_filter(df_comp, T_line))>>

\* show_statistics, staff table before the sort: name -> sum
StaffSums(records, category, mode, value, selected_year) ==
    LET df == FilterByPeriod(category_filter(ensure_dataframe(records), category),
                             mode, value, selected_year)
    IN  GroupSum(df, [i \in DOMAIN df |-> df[i].name])

\* sort_values("count", ascending=False): the orders of the rows a sort by
\* descending sum may give. The default sort (quicksort) is not stable, so
\* rows of equal sum come in either order
SortValuesDesc(sums) ==
    LET n == Cardinality(DOMAIN sums)
    IN  {o \in [1..n -> DOMAIN sums] :
            /\ \A i, j \in 1..n : i # j => o[i] # o[j]
            /\ \A i, j \in 1..n : i < j => sums[o[i]] >= sums[o[j]]}

\* data_management.show_statistics: what it computes from the session's
\* records for the current month; rate is <<>> when no rate is shown, else
\* <<tenths of a percent>>
(* f"{(total / target * 100):.1f}%" *)
DmStatistics(records, category, current_month, target) ==
    LET df == category_filter(month_filter(ensure_dataframe(records), current_month), category)
        total == CountSum(df)
    IN  [op |-> "dm_statistics", category |-> category, month |-> current_month,
         target |-> target, total |-> total,
         rate |-> IF target # 0 THEN <<RoundDiv(total * 1000, target)>> ELSE <<>>,
         week_series |-> GroupSum(df, [i \in DOMAIN df |-> df[i].week.s]),
         staff_series |-> GroupSum(df, [i \in DOMAIN df |-> df[i].name]),
         composition |-> IF category = Cat_app
                         THEN <<CountSum(type_filter(df, T_new)) + CountSum(type_filter(df, T_exist)),
                                CountSum(type_filter(df, T_line))>>
                         ELSE <<>>]

(* ------------------------------------------------------------------ *)
(* Statistics: inputs and operations                                   *)
(* ------------------------------------------------------------------ *)

D_aug13 == <<"2", "0", "2", "5", "-", "0", "8", "-", "1", "3">>
D_aug04 == <<"2", "0", "2", "5", "-", "0", "8", "-", "0", "4">>
D_sep01 == <<"2", "0", "2", "5", "-", "0", "9", "-", "0", "1">>
D_aug32 == <<"2", "0", "2", "5", "-", "0", "8", "-", "3", "2">>

N_B == <<"B">>
N_C == <<"C">>

\* week cells: the number insert_or_update_record writes, the label
\* record_form gives the session's copy
W_33w == <<"3", "3", "w">>

\* a record as load_all_records returns it or record_form appends it
Rec(d, wk, n, t, c) == [date |-> d, week |-> wk, name |-> n, type |-> t, count |-> c]

\* the records the session's list is drawn from
RecordPool ==
    << Rec(D_dash, IntVal(33), N_A, T_new, 5),
       Rec(D_aug13, StrVal(W_33w), N_B, T_exist, 5),
       Rec(D_aug04, IntVal(32), N_C, T_line, 3),
       Rec(D_dash, IntVal(33), N_A, T_survey, 2),
       Rec(D_aug13, StrVal(W_33w), N_B, T_survey, 2),
       Rec(D_sep01, IntVal(36), N_B, T_new, 1),
       Rec(D_aug32, StrVal(EmptyText), N_C, T_new, 4),
       Rec(D_dash, IntVal(33), N_B, T_other, 7) >>

RECURSIVE PickRecords(_, _)
\* the records of the pool at the positions S, from position i on, in order
PickRecords(S, i) ==
    IF i > Len(RecordPool) THEN <<>>
    ELSE (IF i \in S THEN <<RecordPool[i]>> ELSE <<>>) \o PickRecords(S, i + 1)

RecordLists ==
    {PickRecords(S, 1) : S \in {T \in SUBSET (1..Len(RecordPool)) : Cardinality(T) <= MaxRecs}}

\* the targets get_target may return
TargetInputs == {-1, 0, 4, 7, 10}

\* the periods chosen in the selectors
P_w33 == <<"w", "3", "3">>
P_w32 == <<"w", "3", "2">>

Periods ==
    {<<"week", P_w33>>, <<"week", P_w32>>, <<"month", M_aug>>, <<"month", M_sep>>,
     <<"year", EmptyText>>}

YearSel == 2025

InitStats ==
    /\ workbook = [t \in {} |-> <<>>]
    /\ prev = workbook
    /\ hist = <<>>
    /\ session_data \in RecordLists
    /\ view = NoView
    /\ names = {}
    /\ inflight = NoCalls
    /\ cache = NoCache

Show(v) ==
    /\ view' = v
    /\ UNCHANGED <<workbook, prev, hist, session_data, names, inflight, cache>>

\* registration tab: monthly total and render_rate_block
RenderRateBlock(category, ym, target) ==
    Show([op |-> "rate_block", category |-> category, month |-> ym, target |-> target,
          total |-> MonthlyTotal(session_data, ym, category),
          pct |-> RatePct(MonthlyTotal(session_data, ym, category), target)])

\* show_statistics: weekly totals of the selected month
ShowWeekly(category, monthW) ==
    Show([op |-> "weekly", category |-> category, month |-> monthW,
          weekly |-> WeeklyTotals(session_data, monthW, category)])

\* show_statistics: composition of the selected period
ShowComposition(mode, value) ==
    Show([op |-> "composition", mode |-> mode, value |-> value,
          sums |-> CompositionTotals(session_data, mode, value, YearSel)])

\* show_statistics: staff totals of the selected period, sorted
ShowStaff(category, mode, value) ==
    LET sums == StaffSums(session_data, category, mode, value, YearSel)
    IN  \E o \in SortValuesDesc(sums) :
            Show([op |-> "staff", category |-> category, mode |-> mode, value |-> value,
                  staff |-> [i \in DOMAIN o |-> <<o[i], sums[o[i]]>>]])

\* data_management.show_statistics
DmShowStatistics(category, current_month, target) ==
    /\ session_data # <<>>
    /\ Show(DmStatistics(session_data, category, current_month, target))

NextStats ==
    \/ \E c \in Categories, m \in Months, t \in TargetInputs : RenderRateBlock(c, m, t)
    \/ \E c \in Categories, m \in Months : ShowWeekly(c, m)
    \/ \E p \in Periods : ShowComposition(p[1], p[2])
    \/ \E c \in Categories, p \in Periods : ShowStaff(c, p[1], p[2])
    \/ \E c \in Categories, m \in Months, t \in TargetInputs : DmShowStatistics(c, m, t)

\* the statistics over every list of records the session may hold
SpecStats == InitStats /\ [][NextStats]_vars

(* ------------------------------------------------------------------ *)
(* data_management: record_form                                        *)
(* ------------------------------------------------------------------ *)

\* get_week_str(d): f"{d.isocalendar().week}w"
get_week_str(d) == StrVal(StrOfInt(IsoWeek(d.y, d.m, d.d)) \o <<"w">>)

\* the types record_form saves for a category, in the order it saves them
DmTypes(category) == IF category = Cat_app THEN <<T_new, T_exist, T_line>> ELSE <<T_survey>>

\* remove_from_session(types)
remove_from_session(data, date_str, name, types) ==
    LET Kept(r) == ~(r.date = date_str /\ r.name = name /\ r.type \in {types[i] : i \in DOMAIN types})
    IN  SelectSeq(data, Kept)

RECURSIVE DmUpserts(_, _, _, _, _, _)
\* the workbook after record_form's insert_or_update_record calls from the
\* i-th type on: one call for every type, whatever its count
DmUpserts(wb, date_str, name, types, cnts, i) ==
    IF i > Len(types) THEN wb
    ELSE LET wb1 == EnsureWorksheet(wb, RECORDS_SHEET, RecordHeaders)
         IN  DmUpserts(SetSheet(wb1, RECORDS_SHEET,
                                InsertOrUpdateRecord(wb1[RECORDS_SHEET], date_str, name,
                                                     types[i], cnts[i]).ws),
                       date_str, name, types, cnts, i + 1)

\* what record_form can be given: the new-name text and the counts
DmNames == {EmptyText, N_spaceA, N_B}
DmCounts == {<<0, 0, 0>>, <<1, 0, 2>>}

\* a spreadsheet that may hold records, and a session after init_db,
\* init_target_table and init_session
InitDm ==
    /\ workbook \in {EnsureWorksheet(EnsureWorksheet(TableOf(K, [t \in {} |-> <<>>]),
                                                     RECORDS_SHEET, RecordHeaders),
                                     TARGETS_SHEET, TargetHeaders) :
                       K \in SUBSET ActorKeys}
    /\ prev = workbook
    /\ hist = <<>>
    /\ session_data = LoadAllRecords(workbook).recs
    /\ view = NoView
    /\ names = {session_data[i].name : i \in DOMAIN session_data} \ {EmptyText}
    /\ inflight = NoCalls
    /\ cache = NoCache

\* record_form submitted with no name: st.warning and return
DmRecordFormNoName(category, name_input) ==
    /\ Len(hist) < MaxOps
    /\ Strip(name_input) = EmptyText
    /\ names = {}
    /\ hist' = Append(hist, Call("dm_warning", EmptyText, EmptyText, category, 0, FALSE))
    /\ prev' = workbook
    /\ UNCHANGED <<workbook, session_data, view, names, inflight, cache>>

\* record_form(label, category) submitted: name_input is the text typed,
\* name_select the name picked from the session's names, d the date
\* picked, cnts the counts of the category's types
DmRecordForm(category, name_input, name_select, d, cnts) ==
    /\ Len(hist) < MaxOps
    /\ Len(cnts) >= Len(DmTypes(category))
    /\ \E name \in {IF name_input # EmptyText THEN Strip(name_input) ELSE name_select} \ {EmptyText} :
       \E kept \in {remove_from_session(session_data, Strftime(d), name, DmTypes(category))} :
          /\ names' = names \cup {name}
          /\ workbook' = DmUpserts(workbook, Strftime(d), name, DmTypes(category), cnts, 1)
          /\ session_data' = kept \o [i \in 1..Len(DmTypes(category)) |->
                                        Rec(Strftime(d), get_week_str(d), name, DmTypes(category)[i], cnts[i])]
          /\ prev' = workbook
          /\ hist' = Append(hist, Call("dm_form", Strftime(d), name, category, 0, TRUE))
    /\ UNCHANGED <<view, inflight, cache>>

NextDm ==
    \/ \E c \in Categories, n \in DmNames : DmRecordFormNoName(c, n)
    \/ \E c \in Categories, n \in DmNames, d \in FormDates, cnts \in DmCounts :
          \E sel \in (IF names = {} THEN {EmptyText} ELSE names) : DmRecordForm(c, n, sel, d, cnts)

\* a session submitting the two record forms of data_management.py
SpecDm == InitDm /\ [][NextDm]_vars

(* ------------------------------------------------------------------ *)
(* Vocabulary of the properties                                        *)
(* ------------------------------------------------------------------ *)

\* a date text in the canonical calendar form, as it stands when it does
\* not parse
CanonDate(d) ==
    IF ParseDate(Strip(d)).ok THEN Strftime(ParseDate(Strip(d))) ELSE Strip(d)

\* the key a (date, name, type) stands for: canonical date, trimmed name and type
NormKey(d, n, t) == <<CanonDate(d), Strip(n), Strip(t)>>

\* the key of a record load_all_records returns
KeyOf(rec) == <<rec.date, rec.name, rec.type>>

\* the key a stored data row stands for
RowKey(ws, r) == NormKey(ws[r][1], ws[r][3], ws[r][4])

\* the data rows of the records worksheet that hold the key of (d, n, t)
RowsFor(wb, d, n, t) ==
    {r \in DataRows(Records(wb)) : RowKey(Records(wb), r) = NormKey(d, n, t)}

\* the records of a load result that hold the key of (d, n, t)
RecsFor(L, d, n, t) == {i \in DOMAIN L.recs : KeyOf(L.recs[i]) = NormKey(d, n, t)}

\* the preconditions the specification puts on upsert
ValidInput(d, n, t) ==
    /\ ParseDate(Strip(d)).ok
    /\ Strip(n) # EmptyText
    /\ t \in RecordTypes

\* worksheet ws without its row r
WithoutRow(ws, r) == [i \in 1..(Len(ws) - 1) |-> IF i < r THEN ws[i] ELSE ws[i + 1]]

\* the count a cell holds: its integer, 0 when it is empty or no integer
StoredCount(cell) == IF PyInt(cell).ok THEN PyInt(cell).v ELSE 0

(* ------------------------------------------------------------------ *)
(* C1..C10: the record store                                           *)
(* ------------------------------------------------------------------ *)

\* C1: after any sequence of upserts and deletes from the empty table,
\* load_all() never returns two records with the same (date, name, type).
C1_UniqueKeys ==
    LET L == LoadAllRecords(workbook) IN
    L.ok => \A i, j \in DOMAIN L.recs : KeyOf(L.recs[i]) = KeyOf(L.recs[j]) => i = j

\* C2: for every valid (date, name, type, count) whose key has no row,
\* upsert followed by load_all() yields exactly one record with that key,
\* and its count is the submitted count.
C2_UpsertThenLoad ==
    LET L == LoadAllRecords(workbook)
        c == last
    IN  (/\ c.op = "upsert"
         /\ ValidInput(c.date, c.name, c.tp)
         /\ RowsFor(prev, c.date, c.name, c.tp) = {})
        => /\ L.ok
           /\ Cardinality(RecsFor(L, c.date, c.name, c.tp)) = 1
           /\ \A i \in RecsFor(L, c.date, c.name, c.tp) : L.recs[i].count = c.cnt

\* C3: an upsert on a table that already holds a row for the key, with
\* count k, leaves the number of rows unchanged and sets that row's count
\* to k + c (k = 0 for an empty or unparseable stored count).
C3_UpdateAdds ==
    LET c == last
        rows == RowsFor(prev, c.date, c.name, c.tp)
    IN  (c.op = "upsert" /\ rows # {})
        => /\ Len(Records(workbook)) = Len(Records(prev))
           /\ \E r \in rows :
                 Records(workbook)[r][5] = StrOfInt(StoredCount(Records(prev)[r][5]) + c.cnt)

\* C4: a delete of a key with no matching row returns false, raises
\* nothing, and load_all() returns after it what it returned before it.
C4_DeleteAbsent ==
    LET c == last IN
    (c.op = "delete" /\ RowsFor(prev, c.date, c.name, c.tp) = {})
    => /\ c.ret = FALSE
       /\ LoadAllRecords(workbook) = LoadAllRecords(prev)

\* C4's case: a delete of an absent key on a table that holds rows
C4_Witness ==
    /\ last.op = "delete"
    /\ RowsFor(prev, last.date, last.name, last.tp) = {}
    /\ Len(Records(prev)) > 2
    /\ last.ret = FALSE

\* C5: a delete of a key with exactly one row returns true, the key is
\* absent from the next load_all(), and every other row stays, unchanged
\* and in order; with several matching rows only the first one goes.
C5_DeleteExisting ==
    LET c == last
        rows == RowsFor(prev, c.date, c.name, c.tp)
        first == CHOOSE r \in rows : \A q \in rows : r <= q
    IN  (c.op = "delete" /\ rows # {})
        => /\ c.ret = TRUE
           /\ Records(workbook) = WithoutRow(Records(prev), first)
           /\ Cardinality(rows) = 1 => RowsFor(workbook, c.date, c.name, c.tp) = {}

\* C6 as claimed: upsert fails with a ValidationError, and leaves the
\* table unchanged, when the date does not parse, the name is empty after
\* trimming, or the type is not one of new, exist, line, survey.
C6_RejectsInvalid ==
    LET c == last IN
    (c.op = "upsert" /\ ~ValidInput(c.date, c.name, c.tp))
    => /\ c.ret = FALSE
       /\ Records(workbook) = Records(prev)

\* C6 as amended: upsert checks nothing: with such a date, name or type it
\* returns normally and the table then holds a row with exactly the
\* submitted date, name and type, appended unless the scan matched a row.
C6_WritesInvalid ==
    LET c == last
        before == Records(prev)
        after == Records(workbook)
    IN  (c.op = "upsert" /\ ~ValidInput(c.date, c.name, c.tp))
        => /\ c.ret = TRUE
           /\ \E r \in DataRows(after) :
                 after[r][1] = c.date /\ after[r][3] = c.name /\ after[r][4] = c.tp
           /\ Len(after) \in {Len(before), Len(before) + 1}
           /\ (\A r \in DataRows(before) :
                  Strip(before[r][1]) # c.date \/ Strip(before[r][3]) # c.name
                    \/ Strip(before[r][4]) # c.tp)
              => after = Append(before, after[Len(after)])

\* C6's case: three upserts, one with a date that does not exist, one with
\* an empty name, one with an unknown type, have each left their row
C6_Witness ==
    /\ \E i, j, k \in DOMAIN hist :
          /\ hist[i].op = "upsert" /\ ~ParseDate(Strip(hist[i].date)).ok
          /\ hist[j].op = "upsert" /\ Strip(hist[j].name) = EmptyText
          /\ hist[k].op = "upsert" /\ hist[k].tp \notin RecordTypes
    /\ Len(Records(workbook)) = 4

\* C7 as claimed: load_all() returns no record whose date, name or type is
\* empty; a row lacking one of them is skipped.
C7_SkipsIncomplete ==
    LET L == LoadAllRecords(workbook) IN
    L.ok => \A i \in DOMAIN L.recs :
               /\ L.recs[i].date # EmptyText
               /\ L.recs[i].name # EmptyText
               /\ L.recs[i].type # EmptyText

\* C7 as amended: load_all() skips no row: when it returns, it returns one
\* record per stored data row, in row order, and a row's missing date,
\* name or type comes back as the empty string.
C7_ReturnsEveryRow ==
    LET L == LoadAllRecords(workbook)
        ws == Records(workbook)
    IN  L.ok => /\ Len(L.recs) = Len(ws) - 1
                /\ \A i \in DOMAIN L.recs :
                      /\ KeyOf(L.recs[i]) = RowKey(ws, i + 1)
                      /\ ws[i + 1][1] = EmptyText => L.recs[i].date = EmptyText
                      /\ ws[i + 1][3] = EmptyText => L.recs[i].name = EmptyText
                      /\ ws[i + 1][4] = EmptyText => L.recs[i].type = EmptyText

\* C7's case: a stored row lacks two of date, name and type, and
\* load_all() returns
C7_Witness ==
    LET ws == Records(workbook) IN
    /\ LoadAllRecords(workbook).ok
    /\ \E r \in DataRows(ws) :
          Cardinality({c \in {1, 3, 4} : ws[r][c] = EmptyText}) >= 2

\* C8 as claimed: every record load_all() returns has an integer count:
\* the stored integer, and 0 for a stored count that is missing, empty or
\* does not parse as an integer.
C8_CountOrZero ==
    LET L == LoadAllRecords(workbook)
        ws == Records(workbook)
    IN  L.ok => \A i \in DOMAIN L.recs : L.recs[i].count = StoredCount(ws[i + 1][5])

\* C8 as amended: the stored integer; a stored decimal number truncated
\* toward zero; 0 for a count that is missing, empty or no number. No
\* count aborts the read: it returns whenever no name and no type cell
\* holds a number.
C8_CountCoerced ==
    LET L == LoadAllRecords(workbook)
        ws == Records(workbook)
        IsNumber(cell) == PyInt(cell).ok \/ (PyFloat(cell).ok /\ ~PyFloat(cell).zero)
    IN  /\ L.ok => \A i \in DOMAIN L.recs :
                      /\ L.recs[i].count \in Int
                      /\ L.recs[i].count =
                            IF PyInt(ws[i + 1][5]).ok THEN PyInt(ws[i + 1][5]).v
                            ELSE IF PyFloat(ws[i + 1][5]).ok THEN PyFloat(ws[i + 1][5]).v
                            ELSE 0
        /\ (\A r \in DataRows(ws) : ~IsNumber(ws[r][3]) /\ ~IsNumber(ws[r][4])) => L.ok

\* C8's case: a count cell held a decimal and was read as its integer
\* part, then holds a text and is read as 0
C8_Witness ==
    LET L == LoadAllRecords(workbook)
        P == LoadAllRecords(prev)
    IN  /\ L.ok /\ P.ok
        /\ \E r \in DataRows(Records(workbook)) :
              /\ r \in DataRows(Records(prev))
              /\ Records(prev)[r][5] = C_decimal /\ P.recs[r - 1].count = 2
              /\ Records(workbook)[r][5] = C_text /\ L.recs[r - 1].count = 0

\* a text of the form YYYY-MM-DD
IsIsoForm(s) ==
    /\ Len(s) = 10
    /\ s[5] = "-" /\ s[8] = "-"
    /\ \A i \in {1, 2, 3, 4, 6, 7, 9, 10} : IsDigit(s[i])

\* C9: a record written with a '/'-separated date is read back by
\* load_all() with that date as YYYY-MM-DD, a date written as YYYY-MM-DD
\* is read back unchanged, and every date load_all() emits for a parseable
\* stored date has the form YYYY-MM-DD.
C9_DatesCanonical ==
    LET L == LoadAllRecords(workbook)
        ws == Records(workbook)
        c == last
    IN  L.ok =>
        /\ \A i \in DOMAIN L.recs :
              LET cell == Strip(ws[i + 1][1])
                  slash == Strptime(cell, "/")
                  dash == Strptime(cell, "-")
              IN  /\ (slash.ok \/ dash.ok) => IsIsoForm(L.recs[i].date)
                  /\ slash.ok => Strptime(L.recs[i].date, "-") = slash
                  /\ dash.ok => Strptime(L.recs[i].date, "-") = dash
                  /\ (dash.ok /\ IsIsoForm(cell)) => L.recs[i].date = cell
                  /\ cell = D_slash => L.recs[i].date = D_dash
        /\ (c.op = "upsert" /\ (Strptime(c.date, "/").ok \/ Strptime(c.date, "-").ok))
           => \E i \in DOMAIN L.recs :
                 /\ ws[i + 1][1] = c.date
                 /\ IsIsoForm(L.recs[i].date)
                 /\ L.recs[i].name = Strip(c.name)

\* C9's case: the latest upsert wrote 2025/08/12 and load_all() returns
\* that row with the date 2025-08-12
C9_Witness ==
    LET L == LoadAllRecords(workbook) IN
    /\ last.op = "upsert" /\ last.date = D_slash
    /\ L.ok
    /\ \E i \in DOMAIN L.recs :
          Records(workbook)[i + 1][1] = D_slash /\ L.recs[i].date = D_dash

\* C10: the week field of every stored record is the label "<n>w", n the
\* ISO week number of the record's date, whatever writes came before.
C10_WeekLabel ==
    LET ws == Records(workbook) IN
    \A r \in DataRows(ws) :
        LET dt == ParseDate(Strip(ws[r][1])) IN
        dt.ok => ws[r][2] = StrOfInt(IsoWeek(dt.y, dt.m, dt.d)) \o <<"w">>

\* the rows of the targets worksheet that stand for the pair (m, t)
TargetRowsFor(ws, m, t) ==
    {r \in DataRows(ws) : Strip(ws[r][1]) = m /\ Strip(ws[r][2]) = t}

\* the position in h of the latest set_target(m, t, _), 0 when there is none
LatestSet(h, m, t) ==
    LET S == {i \in 1..Len(h) : h[i].op = "set_target" /\ h[i].date = m /\ h[i].tp = t}
    IN  IF S = {} THEN 0 ELSE CHOOSE i \in S : \A j \in S : j <= i

\* the types a category stands for
CategoryTypes(c) == IF c = Cat_app THEN {T_new, T_exist, T_line} ELSE {T_survey}

\* a record's date as a calendar day
DayOf(rec) == ParseDate(rec.date)

\* the record's date lies in the month ym ("YYYY-MM")
InMonth(rec, ym) == DayOf(rec).ok /\ SubSeq(rec.date, 1, 7) = ym

\* the record's ISO week number
WeekNo(rec) == IsoWeek(DayOf(rec).y, DayOf(rec).m, DayOf(rec).d)

\* the record's date lies in the chosen period of the year YearSel
InPeriod(rec, mode, value) ==
    /\ DayOf(rec).ok /\ DayOf(rec).y = YearSel
    /\ mode = "week" => <<"w">> \o StrOfInt(WeekNo(rec)) = value
    /\ mode = "month" => SubSeq(rec.date, 1, 7) = value

RECURSIVE SumAt(_, _)
\* the sum of count over the records at the positions S
SumAt(records, S) ==
    IF S = {} THEN 0
    ELSE LET i == CHOOSE j \in S : TRUE IN records[i].count + SumAt(records, S \ {i})

\* the characters in code point order
CodeOrder == <<" ", "+", "-", ".", "/">> \o DigitChars \o UpperChars \o LowerChars

CodeOf(c) == CHOOSE i \in 1..Len(CodeOrder) : CodeOrder[i] = c

RECURSIVE TextLess(_, _)
\* a < b for two texts
TextLess(a, b) ==
    IF b = <<>> THEN FALSE
    ELSE IF a = <<>> THEN TRUE
    ELSE IF Head(a) # Head(b) THEN CodeOf(Head(a)) < CodeOf(Head(b))
    ELSE TextLess(Tail(a), Tail(b))

\* achievementRate(total, target), in tenths of a percent
AchievementRate(total, target) ==
    IF target <= 0 THEN 0
    ELSE IF RoundDiv(total * 1000, target) > 1000 THEN 1000 ELSE RoundDiv(total * 1000, target)

\* C11: after any sequence of upserts and deletes every stored record has
\* count >= 0: every count cell holds an integer that is not negative, and so
\* does every record load_all_records returns
C11_CountNonNegative ==
    LET ws == Records(workbook)
        L == LoadAllRecords(workbook)
    IN  /\ \A r \in DataRows(ws) : PyInt(ws[r][5]).ok /\ PyInt(ws[r][5]).v >= 0
        /\ L.ok => \A i \in DOMAIN L.recs : L.recs[i].count >= 0

\* C11's case: a row was appended, a count was added to the stored one, and
\* the row was then deleted
C11_Witness ==
    /\ Len(hist) = 3
    /\ hist[1].op = "upsert" /\ hist[2].op = "upsert" /\ hist[3].op = "delete"
    /\ hist[3].ret
    /\ \E r \in DataRows(Records(prev)) : Records(prev)[r][5] = <<"3">>
    /\ DataRows(Records(workbook)) = {}

\* C12: starting from an empty target table, after any sequence of set_target
\* calls the table holds at most one row per (month, category) pair;
\* set_target on a pair that has a row updates that row where it is and
\* leaves the number of rows as it was, set_target on a new pair appends
\* exactly one row
C12_OneTargetPerPair ==
    LET ws == Targets(workbook)
        old == Targets(prev)
    IN  /\ \A m \in Months, t \in Categories : Cardinality(TargetRowsFor(ws, m, t)) <= 1
        /\ last.op = "set_target" =>
              LET rows == TargetRowsFor(old, last.date, last.tp)
                  line == <<last.date, last.tp, StrOfInt(last.cnt)>>
              IN  IF rows # {}
                  THEN /\ Len(ws) = Len(old)
                       /\ \A r \in 1..Len(old) : ws[r] = IF r \in rows THEN line ELSE old[r]
                  ELSE ws = Append(old, line)

\* C12's case: a target was set for a new pair next to another, then set again
C12_Witness ==
    /\ Len(hist) = 3
    /\ \A i \in 1..3 : hist[i].op = "set_target"
    /\ <<hist[1].date, hist[1].tp>> # <<hist[2].date, hist[2].tp>>
    /\ <<hist[1].date, hist[1].tp>> = <<hist[3].date, hist[3].tp>>
    /\ hist[1].cnt # hist[3].cnt
    /\ Len(Targets(workbook)) = 3

\* C13: get_target(month, category) returns the value of the most recent
\* set_target for that pair, whatever set_target calls on other pairs and
\* record upserts and deletes came in between, and 0 when set_target was
\* never called for the pair; no operation removes a target once set
C13_GetLatestTarget ==
    /\ \A m \in Months, t \in Categories :
          /\ GetTarget(Targets(workbook), m, t) =
                IF LatestSet(hist, m, t) = 0 THEN 0 ELSE hist[LatestSet(hist, m, t)].cnt
          /\ LatestSet(hist, m, t) # 0 => TargetRowsFor(Targets(workbook), m, t) # {}
    /\ last.op = "get_target" =>
          last.cnt = GetTarget(Targets(workbook), last.date, last.tp)

\* C13's case: a target was set, then a record call or a set_target on
\* another pair came in between, and get_target returned the value set
C13_Witness ==
    /\ Len(hist) = 3
    /\ hist[1].op = "set_target" /\ hist[1].cnt # 0
    /\ \/ hist[2].op \in {"upsert", "delete"}
       \/ hist[2].op = "set_target" /\ <<hist[2].date, hist[2].tp>> # <<hist[1].date, hist[1].tp>>
    /\ hist[3].op = "get_target"
    /\ <<hist[3].date, hist[3].tp>> = <<hist[1].date, hist[1].tp>>
    /\ hist[3].cnt = hist[1].cnt

\* the rate render_rate_block shows is achievementRate(total, target)
RateBlockClamped ==
    view.op = "rate_block" => view.pct = AchievementRate(view.total, view.target)

\* C14: the achievement rate is 0 for every target <= 0, and for target > 0
\* it is min(100.0, total/target*100) rounded to one decimal place, never
\* above 100.0, in every place the program computes and shows it:
\* render_rate_block and data_management's show_statistics
C14_RateClamped ==
    /\ RateBlockClamped
    /\ view.op = "dm_statistics" /\ view.rate # <<>> =>
          view.rate[1] = AchievementRate(view.total, view.target)

\* C15: the monthly total is the sum of count over exactly the records whose
\* date lies in the month and whose type belongs to the category (new, exist,
\* line for app; survey for survey); records of other months, of the other
\* category or with a date that is no calendar day contribute nothing
C15_MonthlyTotal ==
    view.op \in {"rate_block", "dm_statistics"} =>
        view.total = SumAt(session_data,
                           {i \in DOMAIN session_data :
                               /\ InMonth(session_data[i], view.month)
                               /\ session_data[i].type \in CategoryTypes(view.category)})

\* C15's case: the total of a month over a list holding a record of the
\* month and category, a record of another month and a record whose date is
\* no calendar day
C15_Witness ==
    /\ view.op = "rate_block" /\ view.category = Cat_app /\ view.month = M_aug
    /\ view.total = 5
    /\ \E i \in DOMAIN session_data : session_data[i].date = D_sep01
    /\ \E i \in DOMAIN session_data :
          session_data[i].date = D_aug32 /\ session_data[i].type = T_new

\* the staff table holds one entry per staff name of the filtered records,
\* with the sum of that staff's counts, in descending order of the sums
StaffSumsSorted ==
    view.op = "staff" =>
        LET S == {i \in DOMAIN session_data :
                     /\ InPeriod(session_data[i], view.mode, view.value)
                     /\ session_data[i].type \in CategoryTypes(view.category)}
            staff == {session_data[i].name : i \in S}
            t == view.staff
        IN  /\ Len(t) = Cardinality(staff)
            /\ {t[i][1] : i \in DOMAIN t} = staff
            /\ \A i \in DOMAIN t :
                  t[i][2] = SumAt(session_data, {j \in S : session_data[j].name = t[i][1]})
            /\ \A i, j \in DOMAIN t : i < j => t[i][2] >= t[j][2]

\* C16: the staff totals hold one entry per staff name with the sum of that
\* staff's filtered counts, ordered by descending sum, staff of equal sum by
\* name ascending
C16_StaffOrder ==
    /\ StaffSumsSorted
    /\ view.op = "staff" =>
          \A i, j \in DOMAIN view.staff :
              i < j /\ view.staff[i][2] = view.staff[j][2]
                  => TextLess(view.staff[i][1], view.staff[j][1])

\* the weekly table of show_statistics: one key per ISO week number of the
\* filtered records, with the sum of count over the records of that week
WeeklyTableByIsoWeek ==
    view.op = "weekly" =>
        LET S == {i \in DOMAIN session_data :
                     /\ InMonth(session_data[i], view.month)
                     /\ session_data[i].type \in CategoryTypes(view.category)}
        IN  view.weekly = [w \in {WeekNo(session_data[i]) : i \in S} |->
                              SumAt(session_data, {i \in S : WeekNo(session_data[i]) = w})]

\* C17: the weekly totals hold one key per ISO week that has a filtered
\* record, with the sum of count over the filtered records dated in that
\* week, and no other key: records dated in the same ISO week go to the
\* same key whatever week value their rows store
C17_WeeklyByIsoWeek ==
    /\ WeeklyTableByIsoWeek
    /\ view.op = "dm_statistics" =>
          LET S == {i \in DOMAIN session_data :
                       /\ InMonth(session_data[i], view.month)
                       /\ session_data[i].type \in CategoryTypes(view.category)}
              weeks == {WeekNo(session_data[i]) : i \in S}
          IN  /\ Cardinality(DOMAIN view.week_series) = Cardinality(weeks)
              /\ \A w \in weeks : \E k \in DOMAIN view.week_series :
                    view.week_series[k] = SumAt(session_data, {i \in S : WeekNo(session_data[i]) = w})

\* the composition of show_statistics: the sums of new, exist and line over
\* the filtered records, which add up to the app total of the same filter
CompositionThreeSums ==
    view.op = "composition" =>
        LET S == {i \in DOMAIN session_data : InPeriod(session_data[i], view.mode, view.value)}
            Of(tp) == SumAt(session_data, {i \in S : session_data[i].type = tp})
        IN  /\ view.sums = <<Of(T_new), Of(T_exist), Of(T_line)>>
            /\ view.sums[1] + view.sums[2] + view.sums[3] =
                  SumAt(session_data, {i \in S : session_data[i].type \in CategoryTypes(Cat_app)})

\* C18: the composition totals are the triple (new_sum, exist_sum, line_sum)
\* of the three separate sums over the filtered records; survey records add
\* nothing, and the three add up to the app total of the same filter
C18_CompositionTriple ==
    /\ CompositionThreeSums
    /\ view.op = "dm_statistics" /\ view.category = Cat_app =>
          LET S == {i \in DOMAIN session_data : InMonth(session_data[i], view.month)}
              Of(tp) == SumAt(session_data, {i \in S : session_data[i].type = tp})
          IN  view.composition = <<Of(T_new), Of(T_exist), Of(T_line)>>

\* C19: when the backend fails at any point of an upsert or a set_target,
\* the operation fails as a whole and the tables are left exactly as they
\* were before the call: no state is reachable in which only some of the
\* operation's cell updates have been applied
C19_AllOrNothing ==
    last.op \in {"upsert", "set_target"} /\ ~last.ret =>
        /\ Records(workbook) = Records(prev)
        /\ Targets(workbook) = Targets(prev)

\* the session's snapshot holds a record of the key (d, n, t)
InSnapshot(d, n, t) ==
    \E i \in DOMAIN session_data : KeyOf(session_data[i]) = NormKey(d, n, t)

\* C20: a load followed by a delete is not atomic with respect to a second
\* actor. Whatever the second actor did between the session's load and its
\* delete of a key of the snapshot, the delete completes: it returns
\* whether the table held a row of the key at the time of the call, not
\* whether the snapshot did, removes that row and no other, and returns
\* false over an unchanged table when the row is gone
C20_DeleteAfterLoad ==
    last.op = "delete" /\ InSnapshot(last.date, last.name, last.tp) =>
        LET old == Records(prev)
            rows == RowsFor(prev, last.date, last.name, last.tp)
        IN  /\ last.ret \in BOOLEAN
            /\ last.ret = (rows # {})
            /\ ~last.ret => Records(workbook) = old
            /\ last.ret => \E r \in rows : Records(workbook) = WithoutRow(old, r)

\* C20's case: the key was in the loaded snapshot, the second actor removed
\* its row, and the session's delete of the key returned false
C20_Witness ==
    /\ Len(hist) = 3
    /\ hist[1].op = "load" /\ hist[2].op = "other_delete" /\ hist[3].op = "delete"
    /\ hist[2].ret /\ ~hist[3].ret
    /\ <<hist[2].date, hist[2].name, hist[2].tp>> = <<hist[3].date, hist[3].name, hist[3].tp>>
    /\ InSnapshot(hist[3].date, hist[3].name, hist[3].tp)

\* both calls have returned
BothDone == \A a \in Actors : inflight[a].pc = "done"

\* the count the key's row held before the two calls, 0 without a row
CountBefore ==
    LET rows == RowsFor(prev, RaceKey[1], RaceKey[2], RaceKey[3])
    IN  IF rows = {} THEN 0 ELSE StoredCount(Records(prev)[CHOOSE r \in rows : TRUE][5])

\* one row of the key, holding the count before plus both submitted counts
OneRowBothCounts ==
    LET rows == RowsFor(workbook, RaceKey[1], RaceKey[2], RaceKey[3])
    IN  /\ Cardinality(rows) = 1
        /\ \A r \in rows :
              StoredCount(Records(workbook)[r][5]) = CountBefore + inflight[1].c + inflight[2].c

\* C21: when two actors run upsert on the same key with their storage calls
\* interleaved, the final table holds exactly one row of the key and its
\* count is the initial count plus both submitted values
C21_NoLostIncrement == BothDone => OneRowBothCounts

\* the names the records of a list carry
NamesIn(recs) == {recs[i].name : i \in DOMAIN recs} \ {EmptyText}

\* the step is a submission of the registration form that passed the name check
FormSubmitted == hist' # hist /\ last'.op = "reg_form"

\* C22: after every successful submission of the registration form that
\* writes at least one record the cache holds a fresh load and the session's
\* data and names are those of load_all_records() on the store as it is
\* then; a submission with all four counts zero writes nothing to the store
\* and only adds the name to the session's names
C22_FormReload ==
    [][FormSubmitted =>
         /\ (last'.ret /\ last'.cnt > 0) =>
               /\ LoadAllRecords(workbook').ok
               /\ session_data' = LoadAllRecords(workbook').recs
               /\ cache' = Cached(session_data')
               /\ names' = NamesIn(session_data')
         /\ (last'.cnt = 0) =>
               /\ workbook' = workbook
               /\ names' = names \cup {last'.name}
               /\ session_data' = session_data
               /\ cache' = cache]_vars

\* a submission that added to a stored count while the cache held a list
\* older than the store, and one that only registered a name
C22_Witness ==
    /\ Len(hist) = 3
    /\ hist[1].op = "other_upsert"
    /\ hist[2].op = "reg_form" /\ hist[2].ret /\ hist[2].cnt > 0
    /\ hist[3].op = "reg_form" /\ hist[3].cnt = 0
    /\ session_data # <<>>
    /\ session_data = LoadAllRecords(workbook).recs

\* the keys the record forms were submitted for
SubmittedKeys ==
    UNION {{<<hist[i].date, hist[i].name, t>> : t \in CategoryTypes(hist[i].tp)} :
             i \in {j \in DOMAIN hist : hist[j].op = "dm_form"}}

\* the session holds one entry of the key, with the count load_all_records()
\* returns for it
SessionAgrees(k) ==
    LET mine == {i \in DOMAIN session_data : KeyOf(session_data[i]) = k}
        L == LoadAllRecords(workbook)
        theirs == RecsFor(L, k[1], k[2], k[3])
    IN  /\ Cardinality(mine) = 1
        /\ theirs # {}
        /\ \A i \in mine, r \in theirs : session_data[i].count = L.recs[r].count

\* C23: after any sequence of submissions of record_form the session's list
\* agrees with the store: for every submitted key the session holds exactly
\* one entry, whose count is the count the store holds for the key
C23_SessionMatchesStore == \A k \in SubmittedKeys : SessionAgrees(k)

\* a worksheet's rows, none when the worksheet does not exist
SheetOf(wb, title) == IF title \in DOMAIN wb THEN wb[title] ELSE <<>>

\* the row holds none of the header titles: it is a data row
IsDataRow(row) ==
    \A i \in DOMAIN row :
        Lower(Strip(row[i])) \notin {H_date, H_week, H_name, H_type, H_count, H_month, H_target}

\* the data rows of a worksheet, in their order
DataOf(ws) == SelectSeq(ws, IsDataRow)

\* the data rows of the records worksheet that hold another key than k
OtherRecordRows(wb, k) ==
    LET Other(row) == IsDataRow(row) /\ NormKey(row[1], row[3], row[4]) # k
    IN  SelectSeq(SheetOf(wb, RECORDS_SHEET), Other)

\* the data rows of the targets worksheet for another pair than (m, t)
OtherTargetRows(wb, m, t) ==
    LET Other(row) == IsDataRow(row) /\ <<Strip(row[1]), Strip(row[2])>> # <<m, t>>
    IN  SelectSeq(SheetOf(wb, TARGETS_SHEET), Other)

\* the upsert left the rows of other keys, in their order, and the targets
UpsertFrame ==
    /\ OtherRecordRows(workbook, NormKey(last.date, last.name, last.tp))
         = OtherRecordRows(prev, NormKey(last.date, last.name, last.tp))
    /\ DataOf(SheetOf(workbook, TARGETS_SHEET)) = DataOf(SheetOf(prev, TARGETS_SHEET))

\* the set_target left the records and the rows of other pairs
SetTargetFrame ==
    /\ DataOf(SheetOf(workbook, RECORDS_SHEET)) = DataOf(SheetOf(prev, RECORDS_SHEET))
    /\ OtherTargetRows(workbook, last.date, last.tp) = OtherTargetRows(prev, last.date, last.tp)

\* C24: upsert changes at most the row of its own key: the rows of other
\* keys keep their cells and their order and the targets are unchanged;
\* set_target leaves the records and the targets of other pairs unchanged
C24_Frame ==
    /\ last.op = "upsert" => UpsertFrame
    /\ last.op = "set_target" => SetTargetFrame

\* _ensure_worksheet on the worksheet as it stands: row 1 is the header
\* row afterwards, the data rows are the ones before, a second call changes
\* nothing
EnsureKeeps(title, headers) ==
    LET after == EnsureWorksheet(workbook, title, headers)
    IN  /\ NormHeaders(after[title][1]) = NormHeaders(headers)
        /\ DataOf(after[title]) = DataOf(SheetOf(workbook, title))
        /\ EnsureWorksheet(after, title, headers) = after

\* the operations that write nothing but what _ensure_worksheet writes
EnsureOnlyOps == {"init", "init_target", "load", "get_target"}

\* C25: after _ensure_worksheet row 1 holds the expected headers and no
\* data row is lost or altered, whatever row 1 held before; a second call
\* changes nothing; so the operations that call it first remove no data row
\* through it
C25_EnsureKeepsRows ==
    /\ EnsureKeeps(RECORDS_SHEET, RecordHeaders)
    /\ EnsureKeeps(TARGETS_SHEET, TargetHeaders)
    /\ last.op \in EnsureOnlyOps =>
          \A title \in SheetTitles : DataOf(SheetOf(workbook, title)) = DataOf(SheetOf(prev, title))

====
